---------------------------- MODULE Spec2Model ----------------------------
(***************************************************************************)
(* Stackification pass of the MASM code generator                          *)
(* (codegen/masm/src/stackify/pass.rs).                                    *)
(*                                                                         *)
(* The module holds four specifications over one set of variables:         *)
(*   Spec       the emitter driver (Stackify::run, MasmEmitter::emit ...)  *)
(*              run on a bounded family of SSA functions;                  *)
(*   SpecStack  the stack-manipulation helpers applied to every bounded    *)
(*              operand stack;                                             *)
(*   SpecDCE    build_dependency_graph applied to a family of blocks;      *)
(*   SpecImm    immediate_to_push_op applied to every immediate kind.      *)
(***************************************************************************)
EXTENDS Integers, Sequences, FiniteSets, TLC

VARIABLES
    fn,             \* the SSA function being lowered (input of the pass)
    blocks,         \* f_prime.blocks: the op sequence of every MASM block
    visited,        \* MasmEmitter.visited
    cached,         \* MasmEmitter.cached (the header blocks with an entry)
    controlling,    \* MasmEmitter.controlling (0 = None)
    emitting,       \* MasmEmitter.emitting (0 = reserved value)
    current_block,  \* MasmEmitter.current_block (0 = u32::MAX placeholder)
    stack,          \* the operand stack of the innermost emit_schedule
    frames,         \* the call stack of emit / emit_inst activations
    status,         \* "init", "run", "done" or the reason of the abort
    fetches,        \* history: operand fetches (value, moved or copied)
    entries,        \* history: block entries (stack before / after renaming)
    emitted,        \* history: instructions lowered, in order
    replog,         \* history: repeat-visit terminator lowerings
    u               \* state of the helper specifications

vars == <<fn, blocks, visited, cached, controlling, emitting, current_block,
          stack, frames, status, fetches, entries, emitted, replog, u>>

emitterVars == <<fn, blocks, visited, cached, controlling, emitting,
                 current_block, stack, frames, status, fetches, entries,
                 emitted, replog>>

(***************************************************************************)
(* Bounds of the model.                                                    *)
(***************************************************************************)
MaxStackLen == 5      \* longest operand stack the helper specification starts from
MaxExtra == 1         \* extra unused entry parameters added to each function

Vals == {1, 2, 3}     \* value names used by the helper specification

\* sequences over S of length at most n
RECURSIVE SeqsUpTo(_, _)
SeqsUpTo(S, n) ==
    IF n = 0 THEN {<<>>}
    ELSE LET shorter == SeqsUpTo(S, n - 1)
         IN shorter \cup {Append(q, x) : q \in {r \in shorter : Len(r) = n - 1}, x \in S}

SeqToSet(q) == {q[i] : i \in 1..Len(q)}

Contains(q, x) == \E i \in 1..Len(q) : q[i] = x

RECURSIVE Reverse(_)
Reverse(q) == IF q = <<>> THEN <<>> ELSE Append(Reverse(Tail(q)), Head(q))

Min(a, b) == IF a < b THEN a ELSE b

(***************************************************************************)
(* Operand tokens and the operand stack.  Position 0 (the top) is element  *)
(* 1 of the sequence.                                                      *)
(***************************************************************************)
ValueTok(v) == [c |-> FALSE, n |-> v, al |-> {}]
ConstTok(x) == [c |-> TRUE, n |-> x, al |-> {}]

Names(tok) == IF tok.c THEN {} ELSE {tok.n} \cup tok.al

Push(s, tok) == <<tok>> \o s
Pop(s) == Tail(s)
At(s, i) == s[i + 1]

\* OperandStack::find: the smallest position whose token names v, -1 if none
Find(s, v) ==
    LET hits == {i \in 0..(Len(s) - 1) : v \in Names(At(s, i))}
    IN IF hits = {} THEN -1 ELSE CHOOSE i \in hits : \A j \in hits : i <= j

Dup(s, i) == <<At(s, i)>> \o s

Swap(s, i) ==
    [k \in 1..Len(s) |-> IF k = 1 THEN s[i + 1] ELSE IF k = i + 1 THEN s[1] ELSE s[k]]

Movup(s, i) ==
    <<At(s, i)>> \o SubSeq(s, 1, i) \o SubSeq(s, i + 2, Len(s))

Movdn(s, i) ==
    SubSeq(s, 2, i + 1) \o <<s[1]>> \o SubSeq(s, i + 2, Len(s))

Dropn(s, k) == SubSeq(s, k + 1, Len(s))

\* OperandStack::rename: relabel position i, the old name stays as an alias
Rename(s, i, v) ==
    [s EXCEPT ![i + 1] =
        IF @.c THEN ValueTok(v)
        ELSE [c |-> FALSE, n |-> v, al |-> (@.al \cup {@.n}) \ {v}]]

(***************************************************************************)
(* MASM ops.                                                               *)
(***************************************************************************)
Op(name, a) == [op |-> name, a |-> a, b |-> 0]
Op2(name, a, b) == [op |-> name, a |-> a, b |-> b]

\* `x as u8`
AsU8(x) == x % 256

\* net effect of one op on the VM's operand stack
OpDelta(o) ==
    CASE o.op \in {"push", "push_u8", "push_u32", "dup", "mem_load_imm"} -> 1
      [] o.op = "push2" -> 2
      [] o.op \in {"drop", "if", "while"} -> -1
      [] o.op = "dropw" -> -4
      [] OTHER -> 0

RECURSIVE NetDelta(_)
NetDelta(ops) == IF ops = <<>> THEN 0 ELSE OpDelta(Head(ops)) + NetDelta(Tail(ops))

(***************************************************************************)
(* Results of the helpers: the stack, the ops appended to the block (in    *)
(* order) and "ok" or the reason of the abort.                             *)
(***************************************************************************)
Res(s, o) == [s |-> s, o |-> o, ok |-> "ok"]
Fail(s, o, why) == [s |-> s, o |-> o, ok |-> why]


(***************************************************************************)
(* Stack-manipulation helpers (pass.rs, free functions).                   *)
(***************************************************************************)
\* copy_operand_to_position keeping the strict operand order for every
\* consumer
copy_operand_strict(n, m, is_commutative_binary_operand, s) ==
    CASE m = 0 -> Res(Dup(s, n), <<Op("dup", AsU8(n))>>)
      [] m = 1 ->
            Res(Swap(Dup(s, n), 1), <<Op("dup", AsU8(n)), Op("swap", 1)>>)
      [] OTHER ->
            Res(Movdn(Dup(s, n), m), <<Op("dup", AsU8(n)), Op("movdn", AsU8(m))>>)

\* copy_operand_to_position: copy the n-th operand and make it the m-th
copy_operand_to_position(n, m, is_commutative_binary_operand, s) ==
    CASE m = 0 -> Res(Dup(s, n), <<Op("dup", AsU8(n))>>)
      [] m = 1 ->
            IF is_commutative_binary_operand
            THEN Res(Dup(s, n), <<Op("dup", AsU8(n))>>)
            ELSE Res(Swap(Dup(s, n), 1), <<Op("dup", AsU8(n)), Op("swap", 1)>>)
      [] OTHER ->
            Res(Movdn(Dup(s, n), m), <<Op("dup", AsU8(n)), Op("movdn", AsU8(m))>>)

\* move_operand_to_position leaving the operand on top where it is to
\* become the second operand
move_operand_to_top(n, m, is_commutative_binary_operand, s) ==
    CASE n = m -> Res(s, <<>>)
      [] (n = 1 /\ m = 0) \/ (n = 0 /\ m = 1) ->
            IF is_commutative_binary_operand
            THEN Res(s, <<>>)
            ELSE Res(Swap(s, 1), <<Op("swap", 1)>>)
      [] m = 0 /\ n > 1 -> Res(Movup(s, n), <<Op("movup", AsU8(n))>>)
      [] m = 1 /\ n > 1 ->
            Res(Movup(s, n), <<Op("movup", AsU8(n))>>)
      [] OTHER ->
            Res(Movdn(Movup(s, n), m), <<Op("movup", AsU8(n)), Op("movdn", AsU8(m))>>)

\* move_operand_to_position: make the n-th operand the m-th operand
move_operand_to_position(n, m, is_commutative_binary_operand, s) ==
    CASE n = m -> Res(s, <<>>)
      [] (n = 1 /\ m = 0) \/ (n = 0 /\ m = 1) ->
            IF is_commutative_binary_operand
            THEN Res(s, <<>>)
            ELSE Res(Swap(s, 1), <<Op("swap", 1)>>)
      [] m = 0 /\ n > 1 -> Res(Movup(s, n), <<Op("movup", AsU8(n))>>)
      [] m = 1 /\ n > 1 ->
            Res(Swap(Movup(s, n), 1), <<Op("movup", AsU8(n)), Op("swap", 1)>>)
      [] OTHER ->
            Res(Movdn(Movup(s, n), m), <<Op("movup", AsU8(n)), Op("movdn", AsU8(m))>>)

\* truncate_stack removing one value fewer
truncate_stack_short(n, s) ==
    LET m == IF Len(s) > n + 1 THEN Len(s) - n - 1 ELSE 0
        w == m \div 4
        x == m % 4
    IN IF m > 0
       THEN Res(Dropn(s, m),
                [i \in 1..w |-> Op("dropw", 0)] \o [i \in 1..x |-> Op("drop", 0)])
       ELSE Res(s, <<>>)

\* truncate_stack: remove all but n values
truncate_stack(n, s) ==
    LET m == IF Len(s) > n THEN Len(s) - n ELSE 0
        w == m \div 4
        x == m % 4
    IN IF m > 0
       THEN Res(Dropn(s, m),
                [i \in 1..w |-> Op("dropw", 0)] \o [i \in 1..x |-> Op("drop", 0)])
       ELSE Res(s, <<>>)

\* the ops and the stack effect of removing the token at position n
DropAt(n, s) ==
    CASE n = 0 -> Res(Pop(s), <<Op("drop", 0)>>)
      [] n = 1 -> Res(Pop(Swap(s, 1)), <<Op("swap", 1), Op("drop", 0)>>)
      [] OTHER -> Res(Pop(Movup(s, n)), <<Op("movup", AsU8(n)), Op("drop", 0)>>)

\* drop_operand_at_position: remove the n-th value from the top
drop_operand_at_position(n, s) == DropAt(n, s)

\* the scan loop of drop_unused_operands_at without the test for duplicates
RECURSIVE DropScanAll(_, _, _, _, _, _)
DropScanAll(s, index, seen, ops, used, liveAt) ==
    IF ~(s # <<>> /\ index < Len(s)) THEN Res(s, ops)
    ELSE LET tok == At(s, index)
             keep == Contains(used, tok.n) \/ tok.n \in liveAt
             is_duplicate == FALSE
             d == DropAt(index, s)
         IN IF tok.c
            THEN DropScanAll(d.s, index, seen, ops \o d.o, used, liveAt)
            ELSE IF is_duplicate \/ ~keep
                 THEN DropScanAll(d.s, index, seen \cup {tok.n}, ops \o d.o, used, liveAt)
                 ELSE DropScanAll(s, index + 1, seen \cup {tok.n}, ops, used, liveAt)

\* the first loop of drop_unused_operands_at: visit the stack top to bottom
RECURSIVE DropScan(_, _, _, _, _, _)
DropScan(s, index, seen, ops, used, liveAt) ==
    IF ~(s # <<>> /\ index < Len(s)) THEN Res(s, ops)
    ELSE LET tok == At(s, index)
             keep == Contains(used, tok.n) \/ tok.n \in liveAt
             is_duplicate == tok.n \in seen
             d == DropAt(index, s)
         IN IF tok.c
            THEN DropScan(d.s, index, seen, ops \o d.o, used, liveAt)
            ELSE IF is_duplicate \/ ~keep
                 THEN DropScan(d.s, index, seen \cup {tok.n}, ops \o d.o, used, liveAt)
                 ELSE DropScan(s, index + 1, seen \cup {tok.n}, ops, used, liveAt)

\* the second loop of drop_unused_operands_at: group the drops
RECURSIVE DropFuseLoop(_, _, _)
DropFuseLoop(ops, dropw, out) ==
    IF ops = <<>> THEN out \o dropw
    ELSE IF Head(ops).op = "drop"
         THEN IF Len(dropw) < 4
              THEN DropFuseLoop(Tail(ops), Append(dropw, Head(ops)), out)
              ELSE DropFuseLoop(Tail(ops), <<>>, Append(out, Op("dropw", 0)))
         ELSE DropFuseLoop(Tail(ops), <<>>, Append(out \o dropw, Head(ops)))

DropFuse(ops) == DropFuseLoop(ops, <<>>, <<>>)

\* drop_unused_operands_at(pp, used, stack, block, liveness); liveAt is the
\* set of values v with liveness.is_live_at(v, pp)
drop_unused_operands_at(liveAt, used, s) ==
    LET r == DropScan(s, 0, {}, <<>>, used, liveAt)
    IN Res(r.s, DropFuse(r.o))

\* the inner `while visited.insert(j)` loop of prepare_stack_arguments
RECURSIVE PrepInner(_, _, _, _, _, _, _)
PrepInner(s, args, liveAfter, expected, j, vis, ops) ==
    IF j \in vis THEN [vis |-> vis, ops |-> ops, ok |-> "ok"]
    ELSE IF j >= Len(args)
         THEN [vis |-> vis \cup {j},
               ops |-> Append(ops, IF expected \in liveAfter
                                   THEN Op("dup", AsU8(j))
                                   ELSE Op("movup", AsU8(j))),
               ok |-> "ok"]
         ELSE LET j2 == Find(s, args[j + 1])
              IN IF j2 = -1
                 THEN [vis |-> vis, ops |-> ops, ok |-> "notfound"]
                 ELSE PrepInner(s, args, liveAfter, expected, j2, vis \cup {j},
                                Append(ops, Op("swap", AsU8(j))))

\* the outer `for i in 0..n` loop of prepare_stack_arguments
RECURSIVE PrepOuter(_, _, _, _, _, _)
PrepOuter(s, args, liveAfter, i, vis, ops) ==
    IF i = Len(args) THEN [vis |-> vis, ops |-> ops, ok |-> "ok"]
    ELSE IF i \in vis THEN PrepOuter(s, args, liveAfter, i + 1, vis, ops)
         ELSE LET j == Find(s, args[i + 1])
              IN IF j = -1
                 THEN [vis |-> vis, ops |-> ops, ok |-> "notfound"]
                 ELSE LET r == PrepInner(s, args, liveAfter, args[i + 1], j,
                                         vis \cup {i}, ops)
                      IN IF r.ok # "ok" THEN r
                         ELSE PrepOuter(s, args, liveAfter, i + 1, r.vis, r.ops)

\* the final loop of prepare_stack_arguments: apply the ops to the stack
RECURSIVE ApplyOps(_, _)
ApplyOps(s, ops) ==
    IF ops = <<>> THEN s
    ELSE LET o == Head(ops)
             s2 == CASE o.op = "dup" -> Dup(s, o.a)
                     [] o.op = "movup" -> Movup(s, o.a)
                     [] OTHER -> Swap(s, o.a)
         IN ApplyOps(s2, Tail(ops))

\* prepare_stack_arguments(inst, args, stack, block, liveness); liveAfter is
\* the set of values v with liveness.is_live_after(v, Inst(inst))
prepare_stack_arguments(liveAfter, args, s) ==
    CASE Len(args) = 0 -> Res(s, <<>>)
      [] Len(args) = 1 ->
            LET pos == Find(s, args[1])
            IN IF pos = -1 THEN Fail(s, <<>>, "notfound")
               ELSE IF args[1] \in liveAfter
                    THEN copy_operand_to_position(pos, 0, FALSE, s)
                    ELSE move_operand_to_position(pos, 0, FALSE, s)
      [] OTHER ->
            LET r == PrepOuter(s, args, liveAfter, 0, {}, <<>>)
            IN IF r.ok # "ok" THEN Fail(s, <<>>, r.ok)
               ELSE Res(ApplyOps(s, r.ops), r.ops)

(***************************************************************************)
(* SpecStack: the stack-manipulation helpers, each applied once to every   *)
(* operand stack of at most MaxStackLen tokens.                            *)
(***************************************************************************)
EmitterIdle ==
    /\ fn = 0
    /\ blocks = <<>>
    /\ visited = {}
    /\ cached = {}
    /\ controlling = 0
    /\ emitting = 0
    /\ current_block = 0
    /\ stack = <<>>
    /\ frames = <<>>
    /\ status = "idle"
    /\ fetches = <<>>
    /\ entries = <<>>
    /\ emitted = <<>>
    /\ replog = <<>>

UnitToks == {ValueTok(v) : v \in Vals} \cup {ConstTok(0)}

UnitStacks == SeqsUpTo(UnitToks, MaxStackLen)

ArgLists == SeqsUpTo(Vals, Cardinality(Vals))

UnitStart(q) ==
    [pc |-> "start", s0 |-> q, s |-> q, blk |-> <<>>, act |-> "none", n |-> 0, m |-> 0,
     comm |-> FALSE, args |-> <<>>, live |-> {}, ok |-> "ok"]

InitStack ==
    /\ EmitterIdle
    /\ \E q \in UnitStacks : u = UnitStart(q)

UnitDone(act, r, n, m, comm, args, live) ==
    u' = [u EXCEPT !.pc = "done", !.s = r.s, !.blk = r.o, !.act = act, !.n = n, !.m = m,
                   !.comm = comm, !.args = args, !.live = live, !.ok = r.ok]

UCopy ==
    /\ u.pc = "start"
    /\ \E n \in 0..(Len(u.s) - 1), m \in 0..Len(u.s), comm \in BOOLEAN :
          UnitDone("copy", copy_operand_to_position(n, m, comm, u.s), n, m, comm, <<>>, {})
    /\ UNCHANGED emitterVars

UMove ==
    /\ u.pc = "start"
    /\ \E n \in 0..(Len(u.s) - 1), m \in 0..(Len(u.s) - 1), comm \in BOOLEAN :
          UnitDone("move", move_operand_to_position(n, m, comm, u.s), n, m, comm, <<>>, {})
    /\ UNCHANGED emitterVars

UDropAt ==
    /\ u.pc = "start"
    /\ \E n \in 0..(Len(u.s) - 1) :
          UnitDone("drop_at", drop_operand_at_position(n, u.s), n, 0, FALSE, <<>>, {})
    /\ UNCHANGED emitterVars

UTruncate ==
    /\ u.pc = "start"
    /\ \E n \in 0..MaxStackLen :
          UnitDone("truncate", truncate_stack(n, u.s), n, 0, FALSE, <<>>, {})
    /\ UNCHANGED emitterVars

UDropUnused ==
    /\ u.pc = "start"
    /\ \E used \in SeqsUpTo(Vals, 1), live \in SUBSET Vals :
          UnitDone("drop_unused", drop_unused_operands_at(live, used, u.s), 0, 0, FALSE,
                   used, live)
    /\ UNCHANGED emitterVars

UPrepare ==
    /\ u.pc = "start"
    /\ \E args \in ArgLists, live \in SUBSET Vals :
          UnitDone("prepare", prepare_stack_arguments(live, args, u.s), 0, 0, FALSE,
                   args, live)
    /\ UNCHANGED emitterVars

NextStack == UCopy \/ UMove \/ UDropAt \/ UTruncate \/ UDropUnused \/ UPrepare

SpecStack == InitStack /\ [][NextStack]_vars

\* C1: Stack balance. After a stack-manipulation step the size of the simulated
\* operand stack equals its size before the step plus the net stack effect of
\* the ops the step appended to the output block.
C1_StackBalance ==
    (u.pc = "done" /\ u.ok = "ok") => Len(u.s) = Len(u.s0) + NetDelta(u.blk)

(***************************************************************************)
(* SpecImm: immediate_to_push_op applied to immediates of every kind.      *)
(* TLC's integers are 32 bits wide, so the two halves of a u64 are scaled: *)
(* HalfRange stands for 2^32 (`const N: u64 = 1 << 32`) and a u64 ranges   *)
(* over 0 .. HalfRange * HalfRange - 1.                                    *)
(***************************************************************************)
HalfRange == 16

SmallRange == 3       \* the values 0 .. SmallRange of the narrow immediates

UnsignedTys == {"I1", "U8", "U16", "U32", "U64", "Felt"}
SignedTys == {"I8", "I16", "I32", "I64", "I128"}
FloatTys == {"F64"}

ImmValues(ty) ==
    CASE ty = "I1" -> {0, 1}
      [] ty = "U64" -> 0..(HalfRange * HalfRange - 1)
      [] ty \in SignedTys -> (0 - SmallRange)..SmallRange
      [] ty \in FloatTys -> {0}
      [] OTHER -> 0..SmallRange

Immediates ==
    UNION {{[ty |-> ty, val |-> v] : v \in ImmValues(ty)} :
              ty \in UnsignedTys \cup SignedTys \cup FloatTys}

NoOp == Op("none", 0)

\* immediate_to_push_op with the two halves of a u64 exchanged
immediate_to_push_op_swapped(imm) ==
    CASE imm.ty = "I1" -> Res(<<>>, <<Op("push_u8", imm.val)>>)
      [] imm.ty = "U8" -> Res(<<>>, <<Op("push_u8", imm.val)>>)
      [] imm.ty = "U16" -> Res(<<>>, <<Op("push_u32", imm.val)>>)
      [] imm.ty = "U32" -> Res(<<>>, <<Op("push_u32", imm.val)>>)
      [] imm.ty = "U64" ->
            Res(<<>>, <<Op2("push2", imm.val \div HalfRange, imm.val % HalfRange)>>)
      [] imm.ty = "Felt" -> Res(<<>>, <<Op("push", imm.val)>>)
      [] OTHER -> Fail(<<>>, <<>>, "unimplemented")

\* immediate_to_push_op: the op that pushes an immediate; the result holds
\* the op, or the not-implemented abort and no op
immediate_to_push_op(imm) ==
    CASE imm.ty = "I1" -> Res(<<>>, <<Op("push_u8", imm.val)>>)
      [] imm.ty = "U8" -> Res(<<>>, <<Op("push_u8", imm.val)>>)
      [] imm.ty = "U16" -> Res(<<>>, <<Op("push_u32", imm.val)>>)
      [] imm.ty = "U32" -> Res(<<>>, <<Op("push_u32", imm.val)>>)
      [] imm.ty = "U64" ->
            LET lo == imm.val % HalfRange
                hi == imm.val \div HalfRange
            IN Res(<<>>, <<Op2("push2", lo, hi)>>)
      [] imm.ty = "Felt" -> Res(<<>>, <<Op("push", imm.val)>>)
      [] imm.ty \in SignedTys -> Fail(<<>>, <<>>, "unimplemented")
      [] OTHER -> Fail(<<>>, <<>>, "unimplemented")

InitImm ==
    /\ EmitterIdle
    /\ \E imm \in Immediates : u = [pc |-> "start", imm |-> imm, out |-> <<>>, ok |-> "ok"]

UImm ==
    /\ u.pc = "start"
    /\ LET r == immediate_to_push_op(u.imm)
       IN u' = [u EXCEPT !.pc = "done", !.out = r.o, !.ok = r.ok]
    /\ UNCHANGED emitterVars

NextImm == UImm

SpecImm == InitImm /\ [][NextImm]_vars

\* the part of the table of immediate kinds that the code and the
\* specification agree on
ImmTableCommon ==
    /\ u.imm.ty = "I1" => u.ok = "ok" /\ u.out = <<Op("push_u8", u.imm.val)>>
    /\ u.imm.ty \in {"U16", "U32"} => u.ok = "ok" /\ u.out = <<Op("push_u32", u.imm.val)>>
    /\ u.imm.ty = "U64" =>
          /\ u.ok = "ok"
          /\ Len(u.out) = 1
          /\ u.out[1].op = "push2"
          /\ u.out[1].a + HalfRange * u.out[1].b = u.imm.val
          /\ u.out[1].a \in 0..(HalfRange - 1)
          /\ u.out[1].b \in 0..(HalfRange - 1)
    /\ u.imm.ty = "Felt" => u.ok = "ok" /\ u.out = <<Op("push", u.imm.val)>>
    /\ u.imm.ty \in SignedTys \cup FloatTys => u.ok = "unimplemented" /\ u.out = <<>>

\* C10 (as stated): immediate_to_push_op maps boolean to push(u8); u8, u16 and
\* u32 to push(u32); u64 to push2([lo, hi]) with lo + 2^32 * hi the value and
\* both halves below 2^32; a field element to push(felt); and fails with
\* not-implemented, producing no op, for signed integers and floats.
C10_ImmTableAsStated ==
    u.pc = "done" =>
        /\ ImmTableCommon
        /\ u.imm.ty = "U8" => u.ok = "ok" /\ u.out = <<Op("push_u32", u.imm.val)>>

\* C10 (amended): as above, except that a u8 immediate is pushed with
\* push(u8), like a boolean.
C10_ImmTable ==
    u.pc = "done" =>
        /\ ImmTableCommon
        /\ u.imm.ty = "U8" => u.ok = "ok" /\ u.out = <<Op("push_u8", u.imm.val)>>

\* C10 witness: a u8 immediate above 1 has been converted to push(u8)
C10_Witness ==
    /\ u.pc = "done"
    /\ u.imm.ty = "U8"
    /\ u.imm.val > 1
    /\ u.out = <<Op("push_u8", u.imm.val)>>

(***************************************************************************)
(* The SSA function.  Blocks are 1..Len(F.insts), block 1 is the entry.    *)
(* Values are integers.  An instruction of block b is named by its 1-based *)
(* position in the block, which is also its program index.                 *)
(*   F.params[b]   block parameters                                        *)
(*   F.insts[b]    instructions: [op, args, res, dst, imm]                 *)
(*   F.hdr         loop oracle: the loop headers                           *)
(*   F.lvl[b]      loop oracle: loop nesting depth of b                    *)
(*   F.liveIn[b]   liveness oracle: values live at Block(b)                *)
(*   F.liveOut[b]  liveness oracle: values live after the last instruction *)
(***************************************************************************)
NoImm == [ty |-> "none", val |-> 0]

Inst(op, args, res, dst, imm) ==
    [op |-> op, args |-> args, res |-> res, dst |-> dst, imm |-> imm]

Dest(b, args) == [b |-> b, args |-> args]

\* a global value is a load from the global or the address of a symbol
GlobalValue(r) == Inst("global_value", <<>>, <<r>>, <<>>, [ty |-> "load", val |-> 0])
GlobalSymbol(r) == Inst("global_value", <<>>, <<r>>, <<>>, [ty |-> "symbol", val |-> 0])
Neg(r, a) == Inst("neg", <<a>>, <<r>>, <<>>, NoImm)
Add(r, a, b) == Inst("add", <<a, b>>, <<r>>, <<>>, NoImm)
Sub(r, a, b) == Inst("sub", <<a, b>>, <<r>>, <<>>, NoImm)
Store(a, b) == Inst("store", <<a, b>>, <<>>, <<>>, NoImm)
Ret(a) == Inst("ret", <<a>>, <<>>, <<>>, NoImm)
RetImm(imm) == Inst("ret_imm", <<>>, <<>>, <<>>, imm)
Br(b, args) == Inst("br", <<>>, <<>>, <<Dest(b, args)>>, NoImm)
CondBr(c, t, targs, e, eargs) ==
    Inst("cond_br", <<c>>, <<>>, <<Dest(t, targs), Dest(e, eargs)>>, NoImm)
Switch(c, t, e) == Inst("switch", <<c>>, <<>>, <<Dest(t, <<>>), Dest(e, <<>>)>>, NoImm)

Terminators == {"ret", "ret_imm", "br", "cond_br", "switch"}

\* Instruction::has_side_effects
HasSideEffects(ix) == ix.op \in Terminators \cup {"store"}

\* Instruction::is_binary() && Instruction::is_commutative()
IsCommutativeBinary(ix) == ix.op = "add"

RECURSIVE Flatten(_)
Flatten(qs) == IF qs = <<>> THEN <<>> ELSE Head(qs) \o Flatten(Tail(qs))

\* the outgoing block arguments of an instruction, destination by destination
BranchArgs(ix) == Flatten([k \in 1..Len(ix.dst) |-> ix.dst[k].args])

\* every value an instruction reads
InstUses(ix) == SeqToSet(ix.args) \cup SeqToSet(BranchArgs(ix))

BlockIds(F) == 1..Len(F.insts)

Successors(F, b) ==
    LET t == F.insts[b][Len(F.insts[b])]
    IN {t.dst[k].b : k \in 1..Len(t.dst)}

\* dfg.value_data: the block and program index of the defining instruction,
\* <<0, 0>> for a block parameter
DefSite(F, v) ==
    LET sites == {<<b, i>> \in BlockIds(F) \X (1..8) :
                     i <= Len(F.insts[b]) /\ Contains(F.insts[b][i].res, v)}
    IN IF sites = {} THEN <<0, 0>> ELSE CHOOSE x \in sites : TRUE

\* values live before instruction i of a block, given those live after it
RECURSIVE LiveBefore(_, _, _)
LiveBefore(insts, i, liveOut) ==
    IF i > Len(insts) THEN liveOut
    ELSE (LiveBefore(insts, i + 1, liveOut) \ SeqToSet(insts[i].res))
             \cup InstUses(insts[i])

\* one round of the backward data-flow equations
LiveStep(raw, liveIn) ==
    [b \in 1..Len(raw.insts) |->
        LET out == UNION {liveIn[x] : x \in Successors(raw, b)}
        IN LiveBefore(raw.insts[b], 1, out) \ SeqToSet(raw.params[b])]

RECURSIVE LiveFix(_, _, _)
LiveFix(raw, liveIn, n) ==
    IF n = 0 THEN liveIn ELSE LiveFix(raw, LiveStep(raw, liveIn), n - 1)

\* the function with the results of the liveness analysis attached
WithLiveness(raw) ==
    LET n == Len(raw.insts)
        liveIn == LiveFix(raw, [b \in 1..n |-> {}], n + 1)
    IN [params |-> raw.params, insts |-> raw.insts, hdr |-> raw.hdr, lvl |-> raw.lvl,
        liveIn |-> liveIn,
        liveOut |-> [b \in 1..n |-> UNION {liveIn[x] : x \in Successors(raw, b)}]]

\* liveness.is_live_at(v, ProgramPoint::Block(b))
IsLiveAt(F, v, b) == v \in F.liveIn[b]

\* the values v with liveness.is_live_after(v, ProgramPoint::Inst(i)), i in b
LiveAfterInst(F, b, i) == LiveBefore(F.insts[b], i + 1, F.liveOut[b])

IsLiveAfter(F, v, b, i) == v \in LiveAfterInst(F, b, i)

\* is_live_after(v, Inst(dfg.last_inst(b)))
IsLiveAfterBlock(F, v, b) == v \in F.liveOut[b]

(***************************************************************************)
(* DependencyGraph.  Nodes and edges are kept in insertion order; an edge  *)
(* carries the (value, count) pairs of the uses merged into it.            *)
(***************************************************************************)
InstNode(i) == [k |-> "inst", id |-> i]
StackNode(v) == [k |-> "stack", id |-> v]

EmptyGraph == [nodes |-> <<>>, edges |-> <<>>]

AddNode(g, n) == IF Contains(g.nodes, n) THEN g ELSE [g EXCEPT !.nodes = Append(@, n)]

HasEdge(g, a, b) == \E k \in 1..Len(g.edges) : g.edges[k].dependent = a /\ g.edges[k].dependency = b

EdgeOf(g, a, b) ==
    g.edges[CHOOSE k \in 1..Len(g.edges) :
                g.edges[k].dependent = a /\ g.edges[k].dependency = b]

AddDependency(g, a, b) ==
    IF HasEdge(g, a, b) THEN g
    ELSE [g EXCEPT !.edges = Append(@, [dependent |-> a, dependency |-> b, used |-> <<>>])]

\* Dependency::add_use: count one more use of value on an edge
AddUseTo(used, value) ==
    IF \E k \in 1..Len(used) : used[k].value = value
    THEN [k \in 1..Len(used) |->
             IF used[k].value = value
             THEN [value |-> value, count |-> used[k].count + 1] ELSE used[k]]
    ELSE Append(used, [value |-> value, count |-> 1])

AddUse(g, a, b, value) ==
    [g EXCEPT !.edges =
        [k \in 1..Len(g.edges) |->
            IF g.edges[k].dependent = a /\ g.edges[k].dependency = b
            THEN [g.edges[k] EXCEPT !.used = AddUseTo(@, value)]
            ELSE g.edges[k]]]

\* the edges to the dependencies of n, in insertion order
SuccessorEdges(g, n) == LET T(e) == e.dependent = n IN SelectSeq(g.edges, T)

\* the number of dependents of n
NumPredecessors(g, n) == LET T(e) == e.dependency = n IN Len(SelectSeq(g.edges, T))

RemoveNode(g, n) ==
    LET TN(x) == x # n
        TE(e) == e.dependent # n /\ e.dependency # n
    IN [nodes |-> SelectSeq(g.nodes, TN), edges |-> SelectSeq(g.edges, TE)]

\* add_data_dependency treating every value as a value on the stack
add_data_dependency_stack(node, value, F, b, graph) ==
    LET dep_node == StackNode(value)
    IN AddDependency(AddNode(graph, dep_node), node, dep_node)

(***************************************************************************)
(* build_dependency_graph                                                  *)
(***************************************************************************)
add_data_dependency(node, value, F, b, graph) ==
    LET site == DefSite(F, value)
    IN IF site[1] = b
       THEN LET dep_node == InstNode(site[2])
            IN AddUse(AddDependency(AddNode(graph, dep_node), node, dep_node),
                      node, dep_node, value)
       ELSE LET dep_node == StackNode(value)
            IN AddDependency(AddNode(graph, dep_node), node, dep_node)

RECURSIVE AddDataDependencies(_, _, _, _, _)
AddDataDependencies(node, values, F, b, graph) ==
    IF values = <<>> THEN graph
    ELSE AddDataDependencies(node, Tail(values), F, b,
                             add_data_dependency(node, Head(values), F, b, graph))

\* the first loop of build_dependency_graph, from instruction i on
RECURSIVE BuildUses(_, _, _, _)
BuildUses(F, b, i, graph) ==
    IF i > Len(F.insts[b]) THEN graph
    ELSE LET ix == F.insts[b][i]
             node == InstNode(i)
             g1 == AddDataDependencies(node, ix.args, F, b, AddNode(graph, node))
             g2 == AddDataDependencies(node, BranchArgs(ix), F, b, g1)
         IN BuildUses(F, b, i + 1, g2)

\* the instructions the dead-code elimination starts from
DceSeeds(F, b, graph) ==
    LET T(n) == /\ n.k = "inst"
                /\ NumPredecessors(graph, n) = 0
                /\ ~\E k \in 1..Len(F.insts[b][n.id].res) :
                       IsLiveAfter(F, F.insts[b][n.id].res[k], b, n.id)
        seeds == SelectSeq(graph.nodes, T)
    IN [k \in 1..Len(seeds) |-> seeds[k].id]

\* one iteration of the worklist loop: [g |-> graph, wl |-> worklist, rm |-> removed]
DceStep(F, b, st) ==
    LET i == Head(st.wl)
        node == InstNode(i)
        succ == SuccessorEdges(st.g, node)
        T(e) == e.dependency.k = "inst" /\ NumPredecessors(st.g, e.dependency) = 1
        more == SelectSeq(succ, T)
    IN IF ~HasSideEffects(F.insts[b][i])
       THEN [g |-> RemoveNode(st.g, node),
             wl |-> Tail(st.wl) \o [k \in 1..Len(more) |-> more[k].dependency.id],
             rm |-> st.rm \cup {i}]
       ELSE [g |-> st.g, wl |-> Tail(st.wl), rm |-> st.rm]

RECURSIVE DceLoop(_, _, _)
DceLoop(F, b, st) == IF st.wl = <<>> THEN st ELSE DceLoop(F, b, DceStep(F, b, st))

build_dependency_graph(b, F) ==
    LET graph == BuildUses(F, b, 1, EmptyGraph)
    IN DceLoop(F, b, [g |-> graph, wl |-> DceSeeds(F, b, graph), rm |-> {}]).g

(***************************************************************************)
(* Specification SpecDCE: the dependency graph of one block.  The block    *)
(* has one parameter (value 1), up to MaxInsts instructions defining the   *)
(* values 2, 3, .. where they have a result, and a terminator; the values  *)
(* live after the block are an input.                                      *)
(***************************************************************************)
MaxInsts == 2

\* the instructions that may come next when the values 1..hi are defined
BodyInsts(hi) ==
    {GlobalValue(hi + 1)}
    \cup {Neg(hi + 1, a) : a \in 1..hi}
    \cup {Add(hi + 1, a, c) : a \in 1..hi, c \in 1..hi}
    \cup {Store(a, c) : a \in 1..hi, c \in 1..hi}

TermInsts(hi) ==
    {RetImm([ty |-> "U32", val |-> 0])}
    \cup {Ret(a) : a \in 1..hi}
    \cup {Br(2, <<a>>) : a \in 1..hi}

DefinedAfter(insts) == 1 + Cardinality({k \in 1..Len(insts) : insts[k].res # <<>>})

RECURSIVE Bodies(_)
Bodies(n) ==
    IF n = 0 THEN {<<>>}
    ELSE LET shorter == Bodies(n - 1)
         IN shorter \cup
            UNION {{Append(q, ix) : ix \in BodyInsts(DefinedAfter(q))} :
                      q \in {x \in shorter : Len(x) = n - 1}}

DceBlocks ==
    UNION {{Append(q, t) : t \in TermInsts(DefinedAfter(q))} : q \in Bodies(MaxInsts)}

\* the one-block function, with the liveness the successors impose
DceFunction(insts, liveOut) ==
    [params |-> <<<<1>>, <<>>>>, insts |-> <<insts, <<>>>>, hdr |-> {}, lvl |-> <<0, 0>>,
     liveIn |-> <<LiveBefore(insts, 1, liveOut) \ {1}, liveOut>>,
     liveOut |-> <<liveOut, {}>>]

\* only a block with a successor has values live after it
DceLiveOuts(insts) ==
    IF insts[Len(insts)].op = "br" THEN SUBSET (1..DefinedAfter(insts)) ELSE {{}}

InitDCE ==
    /\ EmitterIdle
    /\ \E insts \in DceBlocks : \E liveOut \in DceLiveOuts(insts) :
          u = [pc |-> "start", F |-> DceFunction(insts, liveOut),
               g |-> EmptyGraph, wl |-> <<>>, rm |-> {}]

\* lines 1866-1926: record the uses, then collect the worklist
UBuildUses ==
    /\ u.pc = "start"
    /\ LET graph == BuildUses(u.F, 1, 1, EmptyGraph)
       IN u' = [u EXCEPT !.pc = "dce", !.g = graph, !.wl = DceSeeds(u.F, 1, graph)]
    /\ UNCHANGED emitterVars

\* lines 1928-1946: one iteration of the worklist loop
UDcePop ==
    /\ u.pc = "dce"
    /\ u.wl # <<>>
    /\ LET st == DceStep(u.F, 1, [g |-> u.g, wl |-> u.wl, rm |-> u.rm])
       IN u' = [u EXCEPT !.g = st.g, !.wl = st.wl, !.rm = st.rm]
    /\ UNCHANGED emitterVars

\* line 1948: the worklist is empty, the graph is returned
UDceReturn ==
    /\ u.pc = "dce"
    /\ u.wl = <<>>
    /\ u' = [u EXCEPT !.pc = "done"]
    /\ UNCHANGED emitterVars

NextDCE == UBuildUses \/ UDcePop \/ UDceReturn

SpecDCE == InitDCE /\ [][NextDCE]_vars

\* C4: Dead-code elimination soundness.  An instruction's node is removed
\* from the dependency graph only if the instruction has no side effects
\* and none of its results is live after the block.
C4_DceSound ==
    u.pc \in {"dce", "done"} =>
        \A i \in u.rm :
            /\ ~HasSideEffects(u.F.insts[1][i])
            /\ \A k \in 1..Len(u.F.insts[1][i].res) :
                   ~IsLiveAfterBlock(u.F, u.F.insts[1][i].res[k], 1)

(***************************************************************************)
(* TreeGraph: the condensation of the dependency graph into expression     *)
(* trees.  A node is a root when it is a stack value or has zero or at     *)
(* least two dependents; every other node belongs to the tree of its only  *)
(* dependent.                                                              *)
(***************************************************************************)
IsRoot(g, n) == n.k = "stack" \/ NumPredecessors(g, n) # 1

\* the only dependent of a node that is not a root
Parent(g, n) ==
    g.edges[CHOOSE k \in 1..Len(g.edges) : g.edges[k].dependency = n].dependent

RECURSIVE Root(_, _)
Root(g, n) == IF IsRoot(g, n) THEN n ELSE Root(g, Parent(g, n))

IsMemberOf(g, n, root) == Root(g, n) = root

NumDependents(g, n) == NumPredecessors(g, n)

Roots(g) == {g.nodes[k] : k \in {j \in 1..Len(g.nodes) : IsRoot(g, g.nodes[j])}}

\* TreeGraph::predecessors: the roots of the trees that use n
TreePredecessors(g, n) ==
    {Root(g, g.edges[k].dependent) :
        k \in {j \in 1..Len(g.edges) : g.edges[j].dependency = n}}

\* the roots the tree of root r depends on
TreeDependencies(g, r) ==
    {Root(g, g.edges[k].dependency) :
        k \in {j \in 1..Len(g.edges) : Root(g, g.edges[j].dependent) = r}} \ {r}

\* TreeGraph::edges: the dependency-graph edges from one tree into another
TreeEdges(g, from, to) ==
    LET T(e) == Root(g, e.dependent) = from /\ Root(g, e.dependency) = to
    IN SelectSeq(g.edges, T)

\* program order of a root; stack values come before every instruction
NodeKey(n) == IF n.k = "stack" THEN n.id - 1000 ELSE n.id

\* the order in which the trees are emitted: a tree after the trees it
\* depends on, otherwise in program order
RECURSIVE EmissionOrder(_, _, _)
EmissionOrder(g, remaining, out) ==
    LET ready == {r \in remaining : TreeDependencies(g, r) \cap remaining = {}}
    IN IF ready = {} THEN out
       ELSE LET r == CHOOSE x \in ready : \A y \in ready : NodeKey(x) <= NodeKey(y)
            IN EmissionOrder(g, remaining \ {r}, Append(out, r))

\* TreeGraph::toposort: the schedule, dependents first; it is visited in reverse
toposort(g) == Reverse(EmissionOrder(g, Roots(g), <<>>))

\* the dependencies of a node, in the order emit_inst visits them
Dependencies(g, n) ==
    LET succ == SuccessorEdges(g, n)
    IN Reverse([k \in 1..Len(succ) |-> succ[k].dependency])

\* DependencyGraph::indexed: depth-first numbering of the nodes below root,
\* a node after its dependencies
RECURSIVE PostOrder(_, _, _)
RECURSIVE PostOrderAll(_, _, _)
PostOrder(g, n, acc) ==
    IF Contains(acc, n) THEN acc
    ELSE LET below == PostOrderAll(g, Dependencies(g, n), acc)
         IN IF Contains(below, n) THEN below ELSE Append(below, n)

PostOrderAll(g, ns, acc) ==
    IF ns = <<>> THEN acc ELSE PostOrderAll(g, Tail(ns), PostOrder(g, Head(ns), acc))

IndexIn(q, x) == IF Contains(q, x) THEN CHOOSE k \in 1..Len(q) : q[k] = x ELSE 0

indexed(g, root) ==
    LET order == PostOrder(g, root, <<>>)
    IN [n \in SeqToSet(order) |-> IndexIn(order, n)]

(***************************************************************************)
(* The last-use oracle.                                                    *)
(***************************************************************************)
\* is_last_dependent_visited; "todo" stands for the todo!() of line 1850
is_last_dependent_visited(dependent, dependent_tree, dependency, dependency_tree, g) ==
    LET indices == indexed(g, dependent_tree)
        Index(n) == IF n \in DOMAIN indices THEN indices[n] ELSE 0
        succs == TreeEdges(g, dependent_tree, dependency_tree)
    IN IF \E k \in 1..Len(succs) :
              /\ succs[k].dependent # dependent
              /\ succs[k].dependency = dependency
              /\ Index(succs[k].dependent) > Index(dependent)
       THEN "false"
       ELSE IF dependency.k = "inst"
            THEN LET used == EdgeOf(g, dependent, dependency).used
                 IN IF Len(used) > 1 THEN "todo"
                    ELSE IF used[1].count = 1 THEN "true" ELSE "false"
            ELSE "true"

\* schedule[..current_index], current_index the position of the tree
RemainingSchedule(schedule, tree) == SubSeq(schedule, 1, IndexIn(schedule, tree) - 1)

\* the move or the copy a fetch ends with; OperandStack asserts its indices
PlaceOperand(is_last_dependent, pos, stack_index, flexible, s) ==
    IF is_last_dependent
    THEN IF stack_index < Len(s)
         THEN move_operand_to_position(pos, stack_index, flexible, s)
         ELSE Fail(s, <<>>, "out_of_range")
    ELSE IF stack_index <= Len(s)
         THEN copy_operand_to_position(pos, stack_index, flexible, s)
         ELSE Fail(s, <<>>, "out_of_range")

\* a fetch: the helper's result and whether it moved the operand
Fetched(r, moved) == [s |-> r.s, o |-> r.o, ok |-> r.ok, moved |-> moved]

\* emit_stack_dependency
emit_stack_dependency(F, b, g, schedule, node, dependent, stack_index, s) ==
    LET value == node.id
        pos == Find(s, value)
        num_dependents == NumDependents(g, node)
        is_live_after_block == IsLiveAfterBlock(F, value, b)
        dependent_tree == Root(g, dependent)
        remaining_schedule == RemainingSchedule(schedule, dependent_tree)
        has_remaining_dependents ==
            \E p \in TreePredecessors(g, node) : Contains(remaining_schedule, p)
        is_last_occurrence ==
            is_last_dependent_visited(dependent, dependent_tree, node, node, g)
        is_last_dependent ==
            IF num_dependents > 1 /\ ~is_live_after_block
            THEN ~has_remaining_dependents /\ is_last_occurrence = "true"
            ELSE ~is_live_after_block
        flexible == IsCommutativeBinary(F.insts[b][dependent.id])
    IN IF pos = -1 THEN Fetched(Fail(s, <<>>, "not_found"), FALSE)
       ELSE Fetched(PlaceOperand(is_last_dependent, pos, stack_index, flexible, s),
                    is_last_dependent)

\* emit_inst_dependency when the dependent is rooted in another tree
emit_inst_dependency(F, b, g, schedule, node, dependent, stack_index, s) ==
    LET dependent_tree == Root(g, dependent)
        num_dependents ==
            IF IsRoot(g, node) THEN NumDependents(g, node) ELSE NumDependents(g, node) - 1
        remaining_schedule == RemainingSchedule(schedule, dependent_tree)
        inst_tree == Root(g, node)
        has_remaining_dependents ==
            \E p \in TreePredecessors(g, inst_tree) : Contains(remaining_schedule, p)
        is_last_occurrence ==
            is_last_dependent_visited(dependent, dependent_tree, node, inst_tree, g)
        is_last_dependent ==
            IF num_dependents > 1
            THEN ~has_remaining_dependents /\ is_last_occurrence = "true"
            ELSE TRUE
        inst_results == F.insts[b][node.id].res
        flexible == IsCommutativeBinary(F.insts[b][dependent.id])
        pos == Find(s, inst_results[1])
    IN IF num_dependents > 1 /\ is_last_occurrence = "todo"
       THEN Fetched(Fail(s, <<>>, "todo"), FALSE)
       ELSE IF inst_results = <<>> THEN Fetched(Res(s, <<>>), FALSE)
       ELSE IF pos = -1 THEN Fetched(Fail(s, <<>>, "not_found"), FALSE)
       ELSE Fetched(PlaceOperand(is_last_dependent, pos, stack_index, flexible, s),
                    is_last_dependent)

(***************************************************************************)
(* The SSA functions the emitter is run on.  U32Zero is the immediate of   *)
(* every ret_imm; a condition is always loaded by a global_value.          *)
(***************************************************************************)
U32Zero == [ty |-> "U32", val |-> 0]

Fun(params, insts, hdr, lvl) ==
    [params |-> params, insts |-> insts, hdr |-> hdr, lvl |-> lvl]

\* v1 = global_value; ret v1
FnGlobalRet ==
    Fun(<<<<>>>>, <<<<GlobalSymbol(1), Ret(1)>>>>, {}, <<0>>)

\* blk(p1, p2): ret_imm
FnRetImm ==
    Fun(<<<<1, 2>>>>, <<<<RetImm(U32Zero)>>>>, {}, <<0>>)

\* blk(p1, p2): ret p2
FnRetParam ==
    Fun(<<<<1, 2>>>>, <<<<Ret(2)>>>>, {}, <<0>>)

\* blk(p1, p2): v3 = add p1, p2; ret v3
FnAdd ==
    Fun(<<<<1, 2>>>>, <<<<Add(3, 1, 2), Ret(3)>>>>, {}, <<0>>)

\* blk(p1, p2): v3 = sub p1, p2; ret v3
FnSub ==
    Fun(<<<<1, 2>>>>, <<<<Sub(3, 1, 2), Ret(3)>>>>, {}, <<0>>)

\* blk(p1): v2 = add p1, p1; ret v2
FnAddSame ==
    Fun(<<<<1>>>>, <<<<Add(2, 1, 1), Ret(2)>>>>, {}, <<0>>)

\* if-then-else on a loaded condition, one arm returns the parameter
FnIfElse ==
    Fun(<<<<1>>, <<>>, <<>>>>,
        <<<<GlobalValue(2), CondBr(2, 2, <<>>, 3, <<>>)>>,
          <<Ret(1)>>,
          <<RetImm(U32Zero)>>>>,
        {}, <<0, 0, 0>>)

\* while-do loop carrying one value: blk2 is the header, blk3 the latch
FnWhile ==
    Fun(<<<<1>>, <<2>>, <<>>, <<>>>>,
        <<<<Br(2, <<1>>)>>,
          <<GlobalValue(3), CondBr(3, 3, <<>>, 4, <<>>)>>,
          <<Br(2, <<2>>)>>,
          <<Ret(2)>>>>,
        {2}, <<0, 1, 1, 0>>)

\* do-while loop: the header blk2 branches unconditionally into the body
FnDoWhile ==
    Fun(<<<<1>>, <<2>>, <<>>, <<>>, <<>>>>,
        <<<<Br(2, <<1>>)>>,
          <<Br(3, <<>>)>>,
          <<GlobalValue(3), CondBr(3, 5, <<>>, 4, <<>>)>>,
          <<Ret(2)>>,
          <<Br(2, <<2>>)>>>>,
        {2}, <<0, 1, 1, 0, 1>>)

\* a loop whose exit leads through a further conditional to the returns
FnExitChain ==
    Fun(<<<<>>, <<>>, <<>>, <<>>, <<>>, <<>>>>,
        <<<<Br(2, <<>>)>>,
          <<GlobalValue(1), CondBr(1, 3, <<>>, 4, <<>>)>>,
          <<Br(2, <<>>)>>,
          <<GlobalValue(2), CondBr(2, 5, <<>>, 6, <<>>)>>,
          <<RetImm(U32Zero)>>,
          <<RetImm(U32Zero)>>>>,
        {2}, <<0, 1, 1, 0, 0, 0>>)

\* three nested loops (headers blk2, blk4, blk6); the innermost latch blk7
\* continues the innermost or the outermost loop directly
FnNested ==
    Fun(<<<<>>, <<>>, <<>>, <<>>, <<>>, <<>>, <<>>, <<>>, <<>>, <<>>>>,
        <<<<Br(2, <<>>)>>,
          <<GlobalValue(1), CondBr(1, 3, <<>>, 10, <<>>)>>,
          <<Br(4, <<>>)>>,
          <<GlobalValue(2), CondBr(2, 5, <<>>, 8, <<>>)>>,
          <<Br(6, <<>>)>>,
          <<GlobalValue(3), CondBr(3, 7, <<>>, 9, <<>>)>>,
          <<GlobalValue(4), CondBr(4, 6, <<>>, 2, <<>>)>>,
          <<Br(2, <<>>)>>,
          <<Br(4, <<>>)>>,
          <<RetImm(U32Zero)>>>>,
        {2, 4, 6}, <<0, 1, 1, 2, 2, 3, 3, 1, 2, 0>>)

\* a loop header (blk4) entered from both arms of a conditional
FnTwoEntries ==
    Fun(<<<<>>, <<>>, <<>>, <<>>, <<>>, <<>>>>,
        <<<<GlobalValue(1), CondBr(1, 2, <<>>, 3, <<>>)>>,
          <<Br(4, <<>>)>>,
          <<Br(4, <<>>)>>,
          <<GlobalValue(2), CondBr(2, 5, <<>>, 6, <<>>)>>,
          <<Br(4, <<>>)>>,
          <<RetImm(U32Zero)>>>>,
        {4}, <<0, 0, 0, 1, 1, 0>>)

\* a join (blk4) that is not a loop header
FnJoin ==
    Fun(<<<<>>, <<>>, <<>>, <<>>>>,
        <<<<GlobalValue(1), CondBr(1, 2, <<>>, 3, <<>>)>>,
          <<Br(4, <<>>)>>,
          <<Br(4, <<>>)>>,
          <<RetImm(U32Zero)>>>>,
        {}, <<0, 0, 0, 0>>)

\* v1 is used by the dead v2 and by the successor blk2
FnDeadUser ==
    Fun(<<<<>>, <<>>, <<>>>>,
        <<<<GlobalValue(1), Neg(2, 1), GlobalValue(3), CondBr(3, 2, <<>>, 3, <<>>)>>,
          <<Ret(1)>>,
          <<RetImm(U32Zero)>>>>,
        {}, <<0, 0, 0>>)

\* v1 is used twice in the tree of v3 and by the successor blk2
FnSharedOperand ==
    Fun(<<<<>>, <<>>, <<>>>>,
        <<<<GlobalValue(1), Neg(2, 1), Sub(3, 2, 1), GlobalValue(4),
            CondBr(4, 2, <<>>, 3, <<>>)>>,
          <<Ret(1)>>,
          <<Ret(3)>>>>,
        {}, <<0, 0, 0>>)

\* blk(p1): v2 = neg p1; ret_imm, where v2 is dead
FnDeadParamUser ==
    Fun(<<<<1>>>>, <<<<Neg(2, 1), RetImm(U32Zero)>>>>, {}, <<0>>)

\* blk(p1): switch
FnSwitch ==
    Fun(<<<<1>>, <<>>, <<>>>>,
        <<<<Switch(1, 2, 3)>>, <<RetImm(U32Zero)>>, <<RetImm(U32Zero)>>>>,
        {}, <<0, 0, 0>>)

\* the ways the latch of FnCarry hands the three loop-carried values back
CarryOrders == {<<4, 5, 6>>, <<5, 6, 4>>, <<6, 4, 5>>, <<5, 4, 6>>}

\* a loop carrying three values, handed back by the latch in the given order
FnCarry(order) ==
    Fun(<<<<1, 2, 3>>, <<4, 5, 6>>, <<>>, <<>>>>,
        <<<<Br(2, <<1, 2, 3>>)>>,
          <<GlobalValue(7), CondBr(7, 3, <<>>, 4, <<>>)>>,
          <<Br(2, order)>>,
          <<RetImm(U32Zero)>>>>,
        {2}, <<0, 1, 1, 0>>)

\* a loop carrying four values, handed back by the latch in their order
FnCarryFour ==
    Fun(<<<<1, 2, 3, 4>>, <<5, 6, 7, 8>>, <<>>, <<>>>>,
        <<<<Br(2, <<1, 2, 3, 4>>)>>,
          <<GlobalValue(9), CondBr(9, 3, <<>>, 4, <<>>)>>,
          <<Br(2, <<5, 6, 7, 8>>)>>,
          <<RetImm(U32Zero)>>>>,
        {2}, <<0, 1, 1, 0>>)

Catalogue ==
    {FnCarryFour, FnGlobalRet, FnRetImm, FnRetParam, FnAdd, FnSub, FnAddSame, FnIfElse, FnWhile, FnDoWhile,
     FnExitChain, FnNested, FnTwoEntries, FnJoin, FnDeadUser, FnSharedOperand,
     FnDeadParamUser, FnSwitch}
    \cup {FnCarry(order) : order \in CarryOrders}

\* k more entry parameters, which no instruction uses
WithExtraParams(raw, k) ==
    [raw EXCEPT !.params[1] = @ \o [i \in 1..k |-> 90 + i]]

\* the function with, for every block, the dependency graph and the schedule
\* that emit builds when it enters the block: both depend on the block and the
\* analyses alone, so every visit of the block builds the same ones
WithPlans(F) ==
    [params |-> F.params, insts |-> F.insts, hdr |-> F.hdr, lvl |-> F.lvl,
     liveIn |-> F.liveIn, liveOut |-> F.liveOut,
     plan |-> [b \in 1..Len(F.insts) |->
                  [depgraph |-> build_dependency_graph(b, F),
                   schedule |-> toposort(build_dependency_graph(b, F))]]]

Functions ==
    {WithPlans(WithLiveness(WithExtraParams(raw, k))) : raw \in Catalogue, k \in 0..MaxExtra}

Predecessors(F, b) == {a \in BlockIds(F) : b \in Successors(F, a)}

\* the shape the earlier passes establish: only loop headers are joins, no
\* edge leads from a fork to a join, and no switch is left
Normalized(F) ==
    /\ \A b \in BlockIds(F) : b \notin F.hdr => Cardinality(Predecessors(F, b)) <= 1
    /\ \A a \in BlockIds(F) : \A b \in Successors(F, a) :
           ~(Cardinality(Successors(F, a)) > 1 /\ Cardinality(Predecessors(F, b)) > 1)
    /\ \A b \in BlockIds(F) : \A i \in 1..Len(F.insts[b]) : F.insts[b][i].op # "switch"

(***************************************************************************)
(* The emitter driver as a state machine.  `frames` is the call stack of   *)
(* the recursion emit -> emit_schedule -> emit_node -> emit_inst -> emit:  *)
(*   "call"   emit has been called with (b, bp, stk) and has not started;  *)
(*   "sched"  emit_schedule of block b is about to visit schedule[pos];    *)
(*            prev and stk hold what the return restores;                  *)
(*   "inst"   emit_inst of instruction `node` of block b is about to visit *)
(*            its pos-th dependency ("deps"), to lower the else arm of a   *)
(*            cond_br ("else", bp the else block) or to return ("after").  *)
(***************************************************************************)
NoPrev == [block |-> 0, emitting |-> 0, controlling |-> 0]

Frame(kind, b, bp, first, visit, pos, node, phase, prev, stk, args) ==
    [kind |-> kind, b |-> b, bp |-> bp, first |-> first, visit |-> visit, pos |-> pos,
     node |-> node, phase |-> phase, prev |-> prev, stk |-> stk, args |-> args]

CallFrame(b, bp, stk, args) ==
    Frame("call", b, bp, TRUE, 0, 0, 0, "none", NoPrev, stk, args)

Top == frames[Len(frames)]

Popped == SubSeq(frames, 1, Len(frames) - 1)

ReplaceTop(f) == [frames EXCEPT ![Len(frames)] = f]

\* masm::Function::create_block; wd is the number of while bodies around it
NewBlock(blks, wd) == Append(blks, [ops |-> <<>>, wd |-> wd])

\* Block::push of each op
EmitOps(blks, id, ops) == [blks EXCEPT ![id].ops = @ \o ops]

Abort(why) ==
    /\ status' = why
    /\ UNCHANGED <<fn, blocks, visited, cached, controlling, emitting, current_block,
                   stack, frames, fetches, entries, emitted, replog, u>>

RECURSIVE PushAll(_, _)
PushAll(s, values) ==
    IF values = <<>> THEN s ELSE PushAll(Push(s, ValueTok(Head(values))), Tail(values))

\* the operand stack Stackify::run starts from, with the order of the push
\* loop exchanged
EntryStackForward(F) == PushAll(<<>>, F.params[1])

\* the operand stack Stackify::run starts from
EntryStack(F) == PushAll(<<>>, Reverse(F.params[1]))

\* the renaming loop of emit: position i is named after the i-th parameter
RECURSIVE RenameParams(_, _, _)
RenameParams(s, params, i) ==
    IF i >= Len(params) THEN s
    ELSE RenameParams(Rename(s, i, params[i + 1]), params, i + 1)

Graph(b) == fn.plan[b].depgraph

Schedule(b) == fn.plan[b].schedule

\* MasmEmitter::controlling_loop_level
controlling_loop_level ==
    IF controlling # 0 THEN fn.lvl[controlling] ELSE fn.lvl[emitting]

Zeros(n) == [i \in 1..n |-> Op("push", 0)]

ZeroToks(n) == [i \in 1..n |-> ConstTok(0)]

(***************************************************************************)
(* Specification Spec: one run of the pass on one function.                *)
(***************************************************************************)
UnitIdle == [pc |-> "none"]

Init ==
    /\ fn \in Functions
    /\ blocks = <<>>
    /\ visited = {}
    /\ cached = {}
    /\ controlling = 0
    /\ emitting = 0
    /\ current_block = 0
    /\ stack = <<>>
    /\ frames = <<>>
    /\ status = "init"
    /\ fetches = <<>>
    /\ entries = <<>>
    /\ emitted = <<>>
    /\ replog = <<>>
    /\ u = UnitIdle

\* Stackify::run: create the entry block, push the entry parameters, call emit
Run ==
    /\ status = "init"
    /\ status' = "run"
    /\ blocks' = NewBlock(<<>>, 0)
    /\ frames' = <<CallFrame(1, 1, EntryStack(fn), fn.params[1])>>
    /\ UNCHANGED <<fn, visited, cached, controlling, emitting, current_block, stack,
                   fetches, entries, emitted, replog, u>>

\* MasmEmitter::emit without the assertion that only a loop header is
\* emitted again
EmitEnterAgain ==
    /\ status = "run"
    /\ Top.kind = "call"
    /\ LET c == Top
           params == fn.params[c.b]
           renamed == RenameParams(c.stk, params, 0)
           is_first_visit == c.b \notin visited
           entry == [b |-> c.b, from |-> emitting, args |-> c.args, pre |-> c.stk,
                     post |-> renamed, first |-> is_first_visit,
                     wd |-> blocks[c.bp].wd, bp |-> c.bp,
                     at |-> Len(blocks[c.bp].ops)]
           prev == [block |-> current_block, emitting |-> emitting,
                    controlling |-> IF emitting = 0 THEN 0 ELSE controlling]
       IN IF Len(params) > Len(c.stk) THEN Abort("out_of_range")
          ELSE /\ current_block' = c.bp
               /\ emitting' = c.b
               /\ controlling' = IF emitting = 0 THEN controlling ELSE emitting
               /\ visited' = visited \cup {c.b}
               /\ entries' = Append(entries, entry)
               /\ IF TRUE
                  THEN /\ cached' = IF c.b \in fn.hdr THEN cached \cup {c.b} ELSE cached
                       /\ stack' = renamed
                       /\ frames' = ReplaceTop(
                              Frame("sched", c.b, c.bp, is_first_visit, Len(entries) + 1,
                                    Len(Schedule(c.b)), 0, "none", prev, stack, <<>>))
                       /\ status' = status
                  ELSE /\ status' = "unexpected_cycle"
                       /\ UNCHANGED <<cached, stack, frames>>
               /\ UNCHANGED <<fn, blocks, fetches, emitted, replog, u>>

\* MasmEmitter::emit taking every visit of a block for its first
EmitEnterFresh ==
    /\ status = "run"
    /\ Top.kind = "call"
    /\ LET c == Top
           params == fn.params[c.b]
           renamed == RenameParams(c.stk, params, 0)
           is_first_visit == TRUE
           entry == [b |-> c.b, from |-> emitting, args |-> c.args, pre |-> c.stk,
                     post |-> renamed, first |-> is_first_visit,
                     wd |-> blocks[c.bp].wd, bp |-> c.bp,
                     at |-> Len(blocks[c.bp].ops)]
           prev == [block |-> current_block, emitting |-> emitting,
                    controlling |-> IF emitting = 0 THEN 0 ELSE controlling]
       IN IF Len(params) > Len(c.stk) THEN Abort("out_of_range")
          ELSE /\ current_block' = c.bp
               /\ emitting' = c.b
               /\ controlling' = IF emitting = 0 THEN controlling ELSE emitting
               /\ visited' = visited \cup {c.b}
               /\ entries' = Append(entries, entry)
               /\ IF c.b \in fn.hdr \/ is_first_visit
                  THEN /\ cached' = IF c.b \in fn.hdr THEN cached \cup {c.b} ELSE cached
                       /\ stack' = renamed
                       /\ frames' = ReplaceTop(
                              Frame("sched", c.b, c.bp, is_first_visit, Len(entries) + 1,
                                    Len(Schedule(c.b)), 0, "none", prev, stack, <<>>))
                       /\ status' = status
                  ELSE /\ status' = "unexpected_cycle"
                       /\ UNCHANGED <<cached, stack, frames>>
               /\ UNCHANGED <<fn, blocks, fetches, emitted, replog, u>>

\* MasmEmitter::emit up to the call of emit_schedule
EmitEnter ==
    /\ status = "run"
    /\ Top.kind = "call"
    /\ LET c == Top
           params == fn.params[c.b]
           renamed == RenameParams(c.stk, params, 0)
           is_first_visit == c.b \notin visited
           entry == [b |-> c.b, from |-> emitting, args |-> c.args, pre |-> c.stk,
                     post |-> renamed, first |-> is_first_visit,
                     wd |-> blocks[c.bp].wd, bp |-> c.bp,
                     at |-> Len(blocks[c.bp].ops)]
           prev == [block |-> current_block, emitting |-> emitting,
                    controlling |-> IF emitting = 0 THEN 0 ELSE controlling]
       IN IF Len(params) > Len(c.stk) THEN Abort("out_of_range")
          ELSE /\ current_block' = c.bp
               /\ emitting' = c.b
               /\ controlling' = IF emitting = 0 THEN controlling ELSE emitting
               /\ visited' = visited \cup {c.b}
               /\ entries' = Append(entries, entry)
               /\ IF c.b \in fn.hdr \/ is_first_visit
                  THEN /\ cached' = IF c.b \in fn.hdr THEN cached \cup {c.b} ELSE cached
                       /\ stack' = renamed
                       /\ frames' = ReplaceTop(
                              Frame("sched", c.b, c.bp, is_first_visit, Len(entries) + 1,
                                    Len(Schedule(c.b)), 0, "none", prev, stack, <<>>))
                       /\ status' = status
                  ELSE /\ status' = "unexpected_cycle"
                       /\ UNCHANGED <<cached, stack, frames>>
               /\ UNCHANGED <<fn, blocks, fetches, emitted, replog, u>>

\* emit_schedule, next node, an instruction: emit_node calls emit_inst
ScheduleInst ==
    /\ status = "run"
    /\ Top.kind = "sched"
    /\ Top.pos >= 1
    /\ LET node == Schedule(Top.b)[Top.pos]
       IN /\ node.k = "inst"
          /\ frames' = Append(ReplaceTop([Top EXCEPT !.pos = @ - 1]),
                              Frame("inst", Top.b, 0, Top.first, Top.visit, 1, node.id,
                                    "deps", NoPrev, <<>>, <<>>))
    /\ UNCHANGED <<fn, blocks, visited, cached, controlling, emitting, current_block,
                   stack, status, fetches, entries, emitted, replog, u>>

\* emit_schedule, next node, a stack value: emit_node drops it if it is unused
ScheduleStack ==
    /\ status = "run"
    /\ Top.kind = "sched"
    /\ Top.pos >= 1
    /\ LET node == Schedule(Top.b)[Top.pos]
           pos == Find(stack, node.id)
           unused == /\ NumDependents(Graph(Top.b), node) = 0
                     /\ ~IsLiveAfterBlock(fn, node.id, emitting)
           r == IF unused THEN drop_operand_at_position(pos, stack) ELSE Res(stack, <<>>)
       IN /\ node.k = "stack"
          /\ IF pos = -1 THEN Abort("not_found")
             ELSE /\ stack' = r.s
                  /\ blocks' = EmitOps(blocks, current_block, r.o)
                  /\ frames' = ReplaceTop([Top EXCEPT !.pos = @ - 1])
                  /\ UNCHANGED <<fn, visited, cached, controlling, emitting,
                                 current_block, status, fetches, entries, emitted,
                                 replog, u>>

\* the end of emit with the operand stack shared between the caller and the
\* block emitted
EmitReturnShared ==
    /\ status = "run"
    /\ Top.kind = "sched"
    /\ Top.pos = 0
    /\ controlling' = Top.prev.controlling
    /\ emitting' = Top.prev.emitting
    /\ current_block' = Top.prev.block
    /\ stack' = stack
    /\ frames' = Popped
    /\ status' = IF Len(frames) = 1 THEN "done" ELSE status
    /\ UNCHANGED <<fn, blocks, visited, cached, fetches, entries, emitted, replog, u>>

\* the end of emit_schedule and of emit: restore the caller's state
EmitReturn ==
    /\ status = "run"
    /\ Top.kind = "sched"
    /\ Top.pos = 0
    /\ controlling' = Top.prev.controlling
    /\ emitting' = Top.prev.emitting
    /\ current_block' = Top.prev.block
    /\ stack' = Top.stk
    /\ frames' = Popped
    /\ status' = IF Len(frames) = 1 THEN "done" ELSE status
    /\ UNCHANGED <<fn, blocks, visited, cached, fetches, entries, emitted, replog, u>>

\* the dependency emit_inst visits next and the instruction it is visited for
NextDependency == Dependencies(Graph(Top.b), InstNode(Top.node))[Top.pos]

HasNextDependency ==
    /\ status = "run"
    /\ Top.kind = "inst"
    /\ Top.phase = "deps"
    /\ Top.pos <= Len(Dependencies(Graph(Top.b), InstNode(Top.node)))

\* the state after a fetch r of value for the instruction on top
FetchDone(r, value) ==
    IF r.ok # "ok" THEN Abort(r.ok)
    ELSE /\ stack' = r.s
         /\ blocks' = EmitOps(blocks, current_block, r.o)
         /\ fetches' = Append(fetches,
                [visit |-> Top.visit, b |-> Top.b, value |-> value, moved |-> r.moved,
                 live |-> IsLiveAfterBlock(fn, value, Top.b), dependent |-> Top.node])
         /\ frames' = ReplaceTop([Top EXCEPT !.pos = @ + 1])
         /\ UNCHANGED <<fn, visited, cached, controlling, emitting, current_block,
                        status, entries, emitted, replog, u>>

\* emit_inst, next dependency, a stack value: emit_node -> emit_stack_dependency
FetchStack ==
    /\ HasNextDependency
    /\ NextDependency.k = "stack"
    /\ FetchDone(emit_stack_dependency(fn, Top.b, Graph(Top.b), Schedule(Top.b),
                                       NextDependency, InstNode(Top.node),
                                       Top.pos - 1, stack),
                 NextDependency.id)

\* emit_inst, next dependency, an instruction of another tree:
\* emit_node -> emit_inst_dependency fetches its result
FetchInst ==
    /\ HasNextDependency
    /\ NextDependency.k = "inst"
    /\ ~IsMemberOf(Graph(Top.b), NextDependency, Root(Graph(Top.b), InstNode(Top.node)))
    /\ LET res == fn.insts[Top.b][NextDependency.id].res
       IN IF res = <<>>
          THEN /\ frames' = ReplaceTop([Top EXCEPT !.pos = @ + 1])
               /\ UNCHANGED <<fn, blocks, visited, cached, controlling, emitting,
                              current_block, stack, status, fetches, entries, emitted,
                              replog, u>>
          ELSE FetchDone(emit_inst_dependency(fn, Top.b, Graph(Top.b), Schedule(Top.b),
                                              NextDependency, InstNode(Top.node),
                                              Top.pos - 1, stack),
                         res[1])

\* emit_inst, next dependency, an instruction of the same tree:
\* emit_node -> emit_inst_dependency -> emit_inst
DescendInst ==
    /\ HasNextDependency
    /\ NextDependency.k = "inst"
    /\ IsMemberOf(Graph(Top.b), NextDependency, Root(Graph(Top.b), InstNode(Top.node)))
    /\ frames' = Append(ReplaceTop([Top EXCEPT !.pos = @ + 1]),
                        Frame("inst", Top.b, 0, Top.first, Top.visit, 1,
                              NextDependency.id, "deps", NoPrev, <<>>, <<>>))
    /\ UNCHANGED <<fn, blocks, visited, cached, controlling, emitting, current_block,
                   stack, status, fetches, entries, emitted, replog, u>>

\* emit_inst lowering the instruction on top without waiting for the loop
\* over its dependencies to finish
AtLoweringEarly(ops) ==
    /\ status = "run"
    /\ Top.kind = "inst"
    /\ Top.phase = "deps"
    /\ fn.insts[Top.b][Top.node].op \in ops

\* emit_inst has emitted every dependency of the instruction on top
AtLowering(ops) ==
    /\ status = "run"
    /\ Top.kind = "inst"
    /\ Top.phase = "deps"
    /\ Top.pos > Len(Dependencies(Graph(Top.b), InstNode(Top.node)))
    /\ fn.insts[Top.b][Top.node].op \in ops

TopInst == fn.insts[Top.b][Top.node]

Lowered == Append(emitted, [visit |-> Top.visit, b |-> Top.b, i |-> Top.node])

\* a return: the zeros pushed and the while bodies around the current block
ReturnLogged(zeros) ==
    Append(replog, [kind |-> "ret", visit |-> Top.visit, b |-> Top.b,
                    from |-> controlling, zeros |-> zeros,
                    delta |-> 0, prep |-> <<>>, ops |-> <<>>,
                    wd |-> blocks[current_block].wd])

\* emit_inst, Instruction::RetImm
LowerRetImm ==
    /\ AtLowering({"ret_imm"})
    /\ LET level == controlling_loop_level
           t == truncate_stack(0, stack)
           p == immediate_to_push_op(TopInst.imm)
       IN IF p.ok # "ok" THEN Abort(p.ok)
          ELSE /\ blocks' = EmitOps(blocks, current_block, t.o \o p.o \o Zeros(level))
               /\ stack' = ZeroToks(level) \o Push(t.s, ConstTok(TopInst.imm.val))
               /\ replog' = ReturnLogged(level)
               /\ emitted' = Lowered
               /\ frames' = Popped
               /\ UNCHANGED <<fn, visited, cached, controlling, emitting, current_block,
                              status, fetches, entries, u>>

\* emit_inst, Instruction::Ret
LowerRet ==
    /\ AtLowering({"ret"})
    /\ LET args == TopInst.args
           level == controlling_loop_level
           extra == Len(stack) - 1
           t == IF Len(stack) > 1
                THEN LET r == truncate_stack(1, Swap(stack, extra))
                     IN Res(r.s, <<Op("swap", extra)>> \o r.o)
                ELSE Res(stack, <<>>)
       IN IF Len(args) # 1 \/ stack = <<>> \/ stack[1].c \/ stack[1].n # args[1]
          THEN Abort("assert")
          ELSE /\ blocks' = EmitOps(blocks, current_block, t.o \o Zeros(level))
               /\ stack' = ZeroToks(level) \o t.s
               /\ replog' = ReturnLogged(level)
               /\ emitted' = Lowered
               /\ frames' = Popped
               /\ UNCHANGED <<fn, visited, cached, controlling, emitting, current_block,
                              status, fetches, entries, u>>

\* drop_unused_operands_at followed by prepare_stack_arguments for one
\* destination of the terminator on top
PrepareEdge(dest, s) ==
    LET d == drop_unused_operands_at(fn.liveIn[dest.b], dest.args, s)
        p == prepare_stack_arguments(LiveAfterInst(fn, Top.b, Top.node), dest.args, d.s)
    IN [s |-> p.s, o |-> d.o \o p.o, ok |-> p.ok]

\* the first visit of a branch emitting its destination inside a while loop
\* in every block
LowerBrWhile ==
    /\ AtLowering({"br"})
    /\ Top.first
    /\ LET dest == TopInst.dst[1]
           e == PrepareEdge(dest, stack)
           is_header == TRUE
           body_blk == Len(blocks) + 1
           b1 == EmitOps(blocks, current_block, e.o)
       IN IF e.ok # "ok" THEN Abort("not_found")
          ELSE /\ blocks' =
                    IF is_header
                    THEN NewBlock(EmitOps(b1, current_block,
                                          <<Op("push", 1), Op("while", body_blk)>>),
                                  blocks[current_block].wd + 1)
                    ELSE b1
               /\ stack' = e.s
               /\ emitted' = Lowered
               /\ frames' = Append(ReplaceTop([Top EXCEPT !.phase = "after"]),
                                   CallFrame(dest.b,
                                             IF is_header THEN body_blk ELSE current_block,
                                             e.s, dest.args))
               /\ UNCHANGED <<fn, visited, cached, controlling, emitting, current_block,
                              status, fetches, entries, replog, u>>

\* emit_inst, Instruction::Br on the first visit of the block
LowerBrFirst ==
    /\ AtLowering({"br"})
    /\ Top.first
    /\ LET dest == TopInst.dst[1]
           e == PrepareEdge(dest, stack)
           is_header == emitting \in fn.hdr
           body_blk == Len(blocks) + 1
           b1 == EmitOps(blocks, current_block, e.o)
       IN IF e.ok # "ok" THEN Abort("not_found")
          ELSE /\ blocks' =
                    IF is_header
                    THEN NewBlock(EmitOps(b1, current_block,
                                          <<Op("push", 1), Op("while", body_blk)>>),
                                  blocks[current_block].wd + 1)
                    ELSE b1
               /\ stack' = e.s
               /\ emitted' = Lowered
               /\ frames' = Append(ReplaceTop([Top EXCEPT !.phase = "after"]),
                                   CallFrame(dest.b,
                                             IF is_header THEN body_blk ELSE current_block,
                                             e.s, dest.args))
               /\ UNCHANGED <<fn, visited, cached, controlling, emitting, current_block,
                              status, fetches, entries, replog, u>>

\* `current_level - target_level` is a usize subtraction: LevelWrap stands
\* for 2^64, the modulus of the wrapped difference
LevelWrap == 4

\* a repeat visit of a header's terminator: the ops of the argument
\* preparation, the ops that follow, the zeros among them, and
\* delta = loop_level(controlling) - loop_level(emitting)
RepeatLogged(prep, ops, zeros) ==
    Append(replog, [kind |-> "repeat", visit |-> Top.visit, b |-> Top.b,
                    from |-> controlling,
                    zeros |-> zeros,
                    delta |-> fn.lvl[controlling] - fn.lvl[emitting],
                    prep |-> prep, ops |-> ops, wd |-> blocks[current_block].wd])

\* the push.1 and the push.0s of a repeat visit, after the ops prep, on stack s
ContinueLoop(prep, s, zeros) ==
    /\ blocks' = EmitOps(blocks, current_block, prep \o <<Op("push", 1)>> \o Zeros(zeros))
    /\ stack' = ZeroToks(zeros) \o Push(s, ConstTok(1))
    /\ replog' = RepeatLogged(prep, <<Op("push", 1)>> \o Zeros(zeros), zeros)
    /\ emitted' = Lowered
    /\ frames' = Popped
    /\ UNCHANGED <<fn, visited, cached, controlling, emitting, current_block,
                   status, fetches, entries, u>>

\* the loop `for _ in 0..(current_level - target_level)`: the subtraction
\* panics on underflow when overflow checks are compiled in and wraps otherwise
ContinueOrBreak(prep, s) ==
    LET current_level == fn.lvl[controlling]
        target_level == fn.lvl[emitting]
    IN IF current_level >= target_level
       THEN ContinueLoop(prep, s, current_level - target_level)
       ELSE \/ Abort("overflow")
            \/ ContinueLoop(prep, s, (current_level - target_level) % LevelWrap)

\* emit_inst, Instruction::Br on a repeat visit of the block
LowerBrRepeat ==
    /\ AtLowering({"br"})
    /\ ~Top.first
    /\ LET e == PrepareEdge(TopInst.dst[1], stack)
       IN IF emitting \notin fn.hdr THEN Abort("unexpected_cycle")
          ELSE IF e.ok # "ok" THEN Abort("not_found")
          ELSE IF controlling = 0 THEN Abort("no_controlling")
          ELSE ContinueOrBreak(e.o, e.s)

\* emit_inst, Instruction::CondBr on a repeat visit of the block
LowerCondBrRepeat ==
    /\ AtLowering({"cond_br"})
    /\ ~Top.first
    /\ IF emitting \notin fn.hdr THEN Abort("unexpected_cycle")
       ELSE IF controlling = 0 THEN Abort("no_controlling")
       ELSE ContinueOrBreak(<<>>, stack)

\* OperandStack::pop
PopOperand(s) == IF s = <<>> THEN s ELSE Pop(s)

\* the first visit of a conditional branch lowered as a simple conditional
\* even in a loop header
LowerCondBrFlat ==
    /\ AtLowering({"cond_br"})
    /\ Top.first
    /\ LET then_blk == Len(blocks) + 1
           else_blk == Len(blocks) + 2
           body_blk == Len(blocks) + 3
           is_header == FALSE
           wd == blocks[current_block].wd
           popped == PopOperand(stack)
           then_dest == TopInst.dst[1]
           e == PrepareEdge(then_dest, popped)
           created ==
               IF is_header
               THEN EmitOps(EmitOps(NewBlock(NewBlock(NewBlock(blocks, wd + 1), wd + 1),
                                             wd + 1),
                                    current_block,
                                    <<Op("push", 1), Op("while", body_blk)>>),
                            body_blk, <<Op2("if", then_blk, else_blk)>>)
               ELSE EmitOps(NewBlock(NewBlock(blocks, wd), wd), current_block,
                            <<Op2("if", then_blk, else_blk)>>)
       IN IF e.ok # "ok" THEN Abort("not_found")
          ELSE /\ blocks' = EmitOps(created, then_blk, e.o)
               /\ stack' = popped
               /\ emitted' = Lowered
               /\ frames' = Append(ReplaceTop([Top EXCEPT !.phase = "else", !.bp = else_blk]),
                                   CallFrame(then_dest.b, then_blk, e.s, then_dest.args))
               /\ UNCHANGED <<fn, visited, cached, controlling, emitting, current_block,
                              status, fetches, entries, replog, u>>

\* emit_inst, Instruction::CondBr on the first visit of the block, up to the
\* call of emit for the then destination
LowerCondBrFirst ==
    /\ AtLowering({"cond_br"})
    /\ Top.first
    /\ LET then_blk == Len(blocks) + 1
           else_blk == Len(blocks) + 2
           body_blk == Len(blocks) + 3
           is_header == emitting \in fn.hdr
           wd == blocks[current_block].wd
           popped == PopOperand(stack)
           then_dest == TopInst.dst[1]
           e == PrepareEdge(then_dest, popped)
           created ==
               IF is_header
               THEN EmitOps(EmitOps(NewBlock(NewBlock(NewBlock(blocks, wd + 1), wd + 1),
                                             wd + 1),
                                    current_block,
                                    <<Op("push", 1), Op("while", body_blk)>>),
                            body_blk, <<Op2("if", then_blk, else_blk)>>)
               ELSE EmitOps(NewBlock(NewBlock(blocks, wd), wd), current_block,
                            <<Op2("if", then_blk, else_blk)>>)
       IN IF e.ok # "ok" THEN Abort("not_found")
          ELSE /\ blocks' = EmitOps(created, then_blk, e.o)
               /\ stack' = popped
               /\ emitted' = Lowered
               /\ frames' = Append(ReplaceTop([Top EXCEPT !.phase = "else", !.bp = else_blk]),
                                   CallFrame(then_dest.b, then_blk, e.s, then_dest.args))
               /\ UNCHANGED <<fn, visited, cached, controlling, emitting, current_block,
                              status, fetches, entries, replog, u>>

\* emit_inst, Instruction::CondBr on the first visit, after the then
\* destination: the else destination
LowerCondBrElse ==
    /\ status = "run"
    /\ Top.kind = "inst"
    /\ Top.phase = "else"
    /\ LET else_dest == TopInst.dst[2]
           e == PrepareEdge(else_dest, stack)
       IN IF e.ok # "ok" THEN Abort("not_found")
          ELSE /\ blocks' = EmitOps(blocks, Top.bp, e.o)
               /\ frames' = Append(ReplaceTop([Top EXCEPT !.phase = "after"]),
                                   CallFrame(else_dest.b, Top.bp, e.s, else_dest.args))
               /\ UNCHANGED <<fn, visited, cached, controlling, emitting, current_block,
                              stack, status, fetches, entries, emitted, replog, u>>

\* emit_inst, Instruction::Switch
LowerSwitch ==
    /\ AtLowering({"switch"})
    /\ Abort("switch")

\* emit_op, Instruction::GlobalValue: emit_global_value pushes the result,
\* then emit_op pushes the results of the instruction
LowerGlobalValue ==
    /\ AtLowering({"global_value"})
    /\ LET result == TopInst.res[1]
           op == IF TopInst.imm.ty = "load"
                 THEN Op("mem_load_imm", 0) ELSE Op("push_u32", 0)
       IN /\ blocks' = EmitOps(blocks, current_block, <<op>>)
          /\ stack' = PushAll(Push(stack, ValueTok(result)), Reverse(TopInst.res))
    /\ emitted' = Lowered
    /\ frames' = Popped
    /\ UNCHANGED <<fn, visited, cached, controlling, emitting, current_block,
                   status, fetches, entries, replog, u>>

\* emit_op, every other instruction: the lowering is todo!()
LowerOther ==
    /\ AtLowering({"neg", "add", "sub", "store"})
    /\ status' = "todo"
    /\ emitted' = Lowered
    /\ UNCHANGED <<fn, blocks, visited, cached, controlling, emitting, current_block,
                   stack, frames, fetches, entries, replog, u>>

\* the end of emit_inst for a terminator, after the calls of emit
InstReturn ==
    /\ status = "run"
    /\ Top.kind = "inst"
    /\ Top.phase = "after"
    /\ frames' = Popped
    /\ UNCHANGED <<fn, blocks, visited, cached, controlling, emitting, current_block,
                   stack, status, fetches, entries, emitted, replog, u>>

Next ==
    \/ Run
    \/ EmitEnter
    \/ ScheduleInst
    \/ ScheduleStack
    \/ EmitReturn
    \/ FetchStack
    \/ FetchInst
    \/ DescendInst
    \/ LowerRetImm
    \/ LowerRet
    \/ LowerBrFirst
    \/ LowerBrRepeat
    \/ LowerCondBrFirst
    \/ LowerCondBrElse
    \/ LowerCondBrRepeat
    \/ LowerSwitch
    \/ LowerGlobalValue
    \/ LowerOther
    \/ InstReturn

Spec == Init /\ [][Next]_vars

(***************************************************************************)
(* Properties of the emitter driver (specification Spec).                  *)
(***************************************************************************)
\* C2: Last-use correctness.  A fetch moves (consumes) the token of a value
\* only if the value is not live after the block's last instruction and no
\* later fetch of the same visit of the block needs the value; in every other
\* case it copies.
C2_LastUse ==
    \A i \in 1..Len(fetches) :
        fetches[i].moved =>
            /\ ~fetches[i].live
            /\ ~\E j \in (i + 1)..Len(fetches) :
                   /\ fetches[j].visit = fetches[i].visit
                   /\ fetches[j].value = fetches[i].value

\* two operand stacks agree below the top n positions
SameBelow(s, t, n) ==
    /\ Len(s) = Len(t)
    /\ \A k \in (n + 1)..Len(s) : s[k].c = t[k].c /\ s[k].n = t[k].n

\* C3: Join convergence.  Every edge into a block leaves, after drop-unused
\* and prepare-arguments, its i-th argument at position i, and below the
\* arguments the same operands as every other edge into the block; that
\* stack with the parameters renamed is the block's entry stack.
C3_JoinConvergence ==
    \A i \in 1..Len(entries) :
        LET e == entries[i]
            n == Len(fn.params[e.b])
        IN /\ \A k \in 1..n : e.args[k] \in Names(e.pre[k])
           /\ SameBelow(e.pre, e.post, n)
           /\ \A j \in 1..Len(entries) :
                  entries[j].b = e.b => SameBelow(entries[j].pre, e.pre, n)

\* the number of while bodies around the body of the loop of header b
HeaderDepth(b) ==
    entries[CHOOSE i \in 1..Len(entries) : entries[i].b = b /\ entries[i].first].wd + 1

\* C5: Loop framing.  Every path through a while body ends with the loop
\* conditions: a return pushes one push(0) for every while body around it,
\* and a continue pushes push(1) and one push(0) for every while body between
\* it and the body of the loop it continues.
C5_LoopFraming ==
    \A i \in 1..Len(replog) :
        LET e == replog[i]
        IN /\ e.kind = "ret" => e.zeros = e.wd
           /\ e.kind = "repeat" => e.zeros = e.wd - HeaderDepth(e.b)

\* the instructions of block b that instruction i depends on in the graph
InstDependencies(b, i) ==
    LET succ == SuccessorEdges(Graph(b), InstNode(i))
    IN {succ[k].dependency.id : k \in {j \in 1..Len(succ) : succ[j].dependency.k = "inst"}}

\* C6: Schedule validity.  Within a visit of a block an instruction is
\* emitted after every instruction of the block it depends on, and no
\* instruction is emitted after the block's terminator.
C6_ScheduleValid ==
    \A j \in 1..Len(emitted) :
        LET e == emitted[j]
        IN /\ \A d \in InstDependencies(e.b, e.i) :
                  \E k \in 1..(j - 1) :
                      emitted[k].visit = e.visit /\ emitted[k].i = d
           /\ e.i = Len(fn.insts[e.b]) =>
                  \A k \in (j + 1)..Len(emitted) : emitted[k].visit # e.visit

\* C6 witness: a terminator was emitted after an instruction it depends on
C6_Witness ==
    \E j \in 1..Len(emitted) : \E k \in 1..(j - 1) :
        /\ emitted[j].i = Len(fn.insts[emitted[j].b])
        /\ emitted[k].visit = emitted[j].visit
        /\ emitted[k].i \in InstDependencies(emitted[j].b, emitted[j].i)
        /\ status = "done"

\* C7: Value locatability.  On a function that meets the normalization
\* prerequisites no find of the emitter fails.
C7_Locatable == Normalized(fn) => status # "not_found"

\* C8: On entry to a block the i-th parameter names position i: the entry
\* block starts from its parameters with parameter 0 on top, and every
\* block's entry stack is the incoming stack with position i relabelled to
\* the i-th parameter, no token moved.
C8_EntryParams ==
    \A i \in 1..Len(entries) :
        LET e == entries[i]
            params == fn.params[e.b]
        IN /\ Len(e.post) = Len(e.pre)
           /\ \A k \in 1..Len(params) :
                  /\ params[k] \in Names(e.post[k])
                  /\ Names(e.pre[k]) \subseteq Names(e.post[k])
           /\ \A k \in (Len(params) + 1)..Len(e.pre) : e.post[k] = e.pre[k]
           /\ i = 1 => \A k \in 1..Len(params) : e.pre[k] = ValueTok(params[k])

\* C8 witness: a block with two or more parameters was entered from another
\* block
C8_Witness ==
    \E i \in 2..Len(entries) :
        /\ Len(fn.params[entries[i].b]) >= 2
        /\ entries[i].pre[1].n # fn.params[entries[i].b][1]

\* C9: On a repeat visit the terminator of a loop header is lowered to
\* exactly push(1) followed by D push(0), where
\* D = loop_level(controlling) - loop_level(emitting).
C9_RepeatVisit ==
    \A i \in 1..Len(replog) :
        LET e == replog[i]
        IN e.kind = "repeat" =>
               /\ e.zeros = e.delta
               /\ e.ops = <<Op("push", 1)>> \o Zeros(e.delta)

\* the number of times emit has been entered for block b
EntryCount(b) == Cardinality({i \in 1..Len(entries) : entries[i].b = b})

\* the number of times instruction i of block b has been lowered
LoweredCount(b, i) ==
    Cardinality({j \in 1..Len(emitted) : emitted[j].b = b /\ emitted[j].i = i})

\* C11: Only loop headers are emitted more than once.  When emit is entered
\* a second time for a block that is not a loop header the run aborts with
\* "unexpected cycle" and lowers nothing of it again; in a completed run every
\* block that is not a loop header was entered exactly once.
C11_NonHeaderOnce ==
    \A b \in BlockIds(fn) \ fn.hdr :
        /\ EntryCount(b) > 1 => status = "unexpected_cycle" /\ EntryCount(b) = 2
        /\ \A i \in 1..Len(fn.insts[b]) : LoweredCount(b, i) <= 1
        /\ status = "done" /\ b \in visited => EntryCount(b) = 1

\* C11 witness: a block that is not a loop header was reached a second time
\* and the run aborted
C11_Witness ==
    /\ status = "unexpected_cycle"
    /\ \E b \in BlockIds(fn) \ fn.hdr : EntryCount(b) = 2 /\ LoweredCount(b, 1) = 1

\* the op sequence of the entry block of the output
EntryOps == blocks[1].ops

\* the run has not aborted
NotAborted == status \in {"init", "run", "done"}

\* C12: Straight-line add.  On the single-block function
\* `v3 = add v1, v2; ret v3`, entered with v1 on top of v2, the pass does not
\* abort, and when it completes the op sequence of the entry block is
\* exactly `add`.
C12_StraightLineAdd ==
    fn = WithPlans(WithLiveness(FnAdd)) =>
        /\ NotAborted
        /\ status = "done" => EntryOps = <<Op("add", 0)>>

\* C13: Duplicate use.  On `v2 = add v1, v1; ret v2` with v1 on the stack
\* the pass does not abort, and when it completes the op sequence of the
\* entry block is exactly `dup(0), add`: the first read of v1 is a copy and
\* the second the consuming use.
C13_DuplicateUse ==
    fn = WithPlans(WithLiveness(FnAddSame)) =>
        /\ NotAborted
        /\ status = "done" => EntryOps = <<Op("dup", 0), Op("add", 0)>>

\* the terminator of block b has been lowered in visit v
TerminatorLowered(v, b) ==
    \E j \in 1..Len(emitted) :
        emitted[j].visit = v /\ emitted[j].b = b /\ emitted[j].i = Len(fn.insts[b])

\* the number of non-terminator instructions lowered in visit v
BodyLowered(v) ==
    Cardinality({j \in 1..Len(emitted) :
                    emitted[j].visit = v /\ emitted[j].i < Len(fn.insts[emitted[j].b])})

\* an op that a non-terminator instruction lowers to
IsInstOp(o) == o.op \in {"mem_load_imm", "push_u32"}

\* the number of ops of q that lower an instruction
InstOps(q) == Cardinality({k \in 1..Len(q) : IsInstOp(q[k])})

\* the visits that lowered the conditional branch of a loop header: the first
\* visits and the repeat visits
HeaderVisits(first) ==
    {v \in 1..Len(entries) :
        /\ entries[v].first = first
        /\ entries[v].b \in fn.hdr
        /\ fn.insts[entries[v].b][Len(fn.insts[entries[v].b])].op = "cond_br"
        /\ TerminatorLowered(v, entries[v].b)}

\* the ops emitted into the output block of visit v since the visit began
OpsOf(v) ==
    SubSeq(blocks[entries[v].bp].ops, entries[v].at + 1, Len(blocks[entries[v].bp].ops))

\* the first visit v of a header ended its output block with push(1); while
EndsWithWhile(v) ==
    LET ops == OpsOf(v)
    IN /\ Len(ops) >= 2
       /\ ops[Len(ops)].op = "while"
       /\ ops[Len(ops) - 1] = Op("push", 1)

\* the ops of the while body that the first visit v of a header created
WhileBody(v) == blocks[OpsOf(v)[Len(OpsOf(v))].a].ops

HelperRan(act) ==
    /\ u.pc = "done"
    /\ u.act = act
    /\ \A k \in 1..Len(u.args) : Find(u.s0, u.args[k]) # -1

\* C15: After prepare_stack_arguments(args) returns, position i of the
\* stack names args[i] for every i (args[0] on top), for every argument list
\* and every arrangement of its values on the stack.
C15_PrepareArgs ==
    HelperRan("prepare") =>
        /\ u.ok = "ok"
        /\ \A k \in 1..Len(u.args) :
               Len(u.s) >= k /\ u.args[k] \in Names(u.s[k])

\* the number of tokens of operand stack s that name value v
TokensOf(s, v) == Cardinality({k \in 1..Len(s) : v \in Names(s[k])})

\* the number of times value v occurs in the argument list args
SlotsOf(args, v) == Cardinality({k \in 1..Len(args) : args[k] = v})

\* C16: prepare_stack_arguments copies (dup) an argument that is live after
\* the branch and moves (move-up) one that is not: after it returns every
\* argument that is live after the branch has a token on the stack besides
\* the ones in its argument slots, and no argument that is not live after
\* the branch has gained a token.
C16_PrepareLiveness ==
    HelperRan("prepare") /\ u.ok = "ok" =>
        \A k \in 1..Len(u.args) :
            LET a == u.args[k]
            IN IF a \in u.live
               THEN TokensOf(u.s, a) > SlotsOf(u.args, a)
               ELSE TokensOf(u.s, a) <= TokensOf(u.s0, a)

\* the positions of stack s that drop_unused_operands_at is to retain: the
\* topmost token of every value that is used or live
KeptPositions(s, used, live) ==
    {k \in 1..Len(s) :
        /\ ~s[k].c
        /\ Contains(used, s[k].n) \/ s[k].n \in live
        /\ \A j \in 1..(k - 1) : s[j].c \/ s[j].n # s[k].n}

\* the i-th smallest element of the set of numbers K
NthOf(K, i) == CHOOSE k \in K : Cardinality({j \in K : j < k}) = i - 1

\* C17: After drop_unused_operands_at(pp, used) the stack holds no constant,
\* no value twice and only values that are used or live at pp; every value
\* that is used or live and was on the stack is still on it, its topmost
\* token being the one kept, and the kept tokens are in their old order.
C17_DropUnused ==
    u.pc = "done" /\ u.act = "drop_unused" =>
        LET K == KeptPositions(u.s0, u.args, u.live)
        IN /\ \A k \in 1..Len(u.s) :
                  /\ ~u.s[k].c
                  /\ Contains(u.args, u.s[k].n) \/ u.s[k].n \in u.live
                  /\ \A j \in 1..Len(u.s) : j # k => u.s[j].n # u.s[k].n
           /\ \A v \in Vals :
                  (Contains(u.args, v) \/ v \in u.live) /\ Find(u.s0, v) # -1 =>
                      Find(u.s, v) # -1
           /\ u.s = [i \in 1..Cardinality(K) |-> u.s0[NthOf(K, i)]]

\* C17 witness: drop_unused_operands_at removed a constant, a duplicate and
\* a dead value and kept two values
C17_Witness ==
    /\ u.pc = "done"
    /\ u.act = "drop_unused"
    /\ Len(u.s) = 2
    /\ \E k \in 1..Len(u.s0) : u.s0[k].c
    /\ \E j, k \in 1..Len(u.s0) : j < k /\ ~u.s0[k].c /\ u.s0[j] = u.s0[k]
    /\ \E k \in 1..Len(u.s0) :
           ~u.s0[k].c /\ ~Contains(u.args, u.s0[k].n) /\ u.s0[k].n \notin u.live

\* the number of ops of q named name
CountOps(q, name) == Cardinality({k \in 1..Len(q) : q[k].op = name})

\* C18: Drop fusion.  The ops drop_unused_operands_at emits hold no four
\* consecutive drops, a drop-word standing in their place, and the drops and
\* drop-words remove as many stack items as tokens were removed from the
\* stack.
C18_DropFusion ==
    u.pc = "done" /\ u.act = "drop_unused" =>
        /\ \A k \in 1..(Len(u.blk) - 3) :
               \E j \in k..(k + 3) : u.blk[j].op # "drop"
        /\ CountOps(u.blk, "drop") + 4 * CountOps(u.blk, "dropw") = Len(u.s0) - Len(u.s)

\* stack s without its position i (0 is the top)
Without(s, i) == SubSeq(s, 1, i) \o SubSeq(s, i + 2, Len(s))

\* the ops the specification lists for a move from position n to position m
\* with a consumer that is not commutative
MoveOps(n, m) ==
    CASE n = m -> <<>>
      [] {n, m} = {0, 1} -> <<Op("swap", 1)>>
      [] m = 0 -> <<Op("movup", n)>>
      [] m = 1 -> <<Op("movup", n), Op("swap", 1)>>
      [] OTHER -> <<Op("movup", n), Op("movdn", m)>>

\* C19: move_operand_to_position(n, m) with a consumer that is not
\* commutative keeps the size of the stack, leaves the token of position n at
\* position m and all other tokens in their order, and emits the ops listed:
\* none for n = m, swap(1) for {n, m} = {0, 1}, move-up(n) for m = 0,
\* move-up(n); swap(1) for m = 1, and move-up(n); move-down(m) otherwise.
C19_MoveOperand ==
    u.pc = "done" /\ u.act = "move" /\ ~u.comm =>
        /\ Len(u.s) = Len(u.s0)
        /\ At(u.s, u.m) = At(u.s0, u.n)
        /\ Without(u.s, u.m) = Without(u.s0, u.n)
        /\ u.blk = MoveOps(u.n, u.m)

\* C19 witness: an operand was moved from below the second position down
\* to another position below it, past different tokens
C19_Witness ==
    /\ u.pc = "done"
    /\ u.act = "move"
    /\ ~u.comm
    /\ u.n >= 2
    /\ u.m > u.n
    /\ u.s # u.s0

\* C20 as stated: with a binary commutative consumer, placing an operand at
\* position 0 or 1 never emits swap(1): a move emits nothing when the value
\* is at position 0 or 1 already, only move-up(n) when it is at n >= 2 and
\* wanted at position 1, and a copy to position 1 emits only dup(n).
C20_CommutativeElisionAsStated ==
    u.pc = "done" /\ u.act \in {"move", "copy"} /\ u.comm /\ u.m \in {0, 1} =>
        /\ CountOps(u.blk, "swap") = 0
        /\ u.act = "move" /\ u.n \in {0, 1} => u.blk = <<>>
        /\ u.act = "move" /\ u.n >= 2 /\ u.m = 1 => u.blk = <<Op("movup", u.n)>>
        /\ u.act = "copy" /\ u.m = 1 => u.blk = <<Op("dup", u.n)>>

\* C20: with a binary commutative consumer, a move to position 0 or 1 of a
\* value that is at position 0 or 1 already emits nothing and leaves the
\* stack as it is, and a copy to position 1 emits only dup(n) and leaves the
\* copy on top; a move from n >= 2 emits move-up(n) for position 0 and
\* move-up(n); swap(1) for position 1, as for any other consumer.
C20_CommutativeElision ==
    u.pc = "done" /\ u.act \in {"move", "copy"} /\ u.comm /\ u.m \in {0, 1} =>
        /\ u.act = "move" /\ u.n \in {0, 1} => u.blk = <<>> /\ u.s = u.s0
        /\ u.act = "move" /\ u.n >= 2 => u.blk = MoveOps(u.n, u.m)
        /\ u.act = "copy" =>
               /\ u.blk = <<Op("dup", u.n)>>
               /\ Len(u.s) = Len(u.s0) + 1
               /\ Without(u.s, 0) = u.s0

\* C20 witness: the operand wanted second by a commutative consumer was on
\* top of a different token, and the move left both where they were
C20_Witness ==
    /\ u.pc = "done"
    /\ u.act = "move"
    /\ u.comm
    /\ u.n = 0
    /\ u.m = 1
    /\ At(u.s0, 0) # At(u.s0, 1)
    /\ u.s = u.s0

\* the index of a stack-manipulation op is one the target VM accepts
IndexInRange(o) ==
    CASE o.op = "dup" -> 0 <= o.a /\ o.a <= 15
      [] o.op = "swap" -> 1 <= o.a /\ o.a <= 15
      [] o.op \in {"movup", "movdn"} -> 2 <= o.a /\ o.a <= 15
      [] OTHER -> TRUE

\* C21: every stack-manipulation op a helper emits carries an index inside
\* the target VM's range: dup(i) with 0 <= i <= 15, swap(i) with 1 <= i <= 15,
\* move-up(i) and move-down(i) with 2 <= i <= 15, for every current position
\* n and desired position m.
C21_IndexRange ==
    u.pc = "done" => \A k \in 1..Len(u.blk) : IndexInRange(u.blk[k])

\* a step that lowers a return
ReturnStep == Len(replog') = Len(replog) + 1 /\ replog'[Len(replog')].kind = "ret"

\* the ops a step appends to the current block
StepOps ==
    SubSeq(blocks'[current_block].ops, Len(blocks[current_block].ops) + 1,
           Len(blocks'[current_block].ops))

\* the token of the value a return instruction returns
IsReturnToken(tok, ix) ==
    IF ix.op = "ret" THEN ~tok.c /\ tok.n = ix.args[1]
    ELSE tok = ConstTok(ix.imm.val)

\* C22: after a return (value or immediate form) is lowered, the simulated
\* stack is exactly the return value at the bottom with L zero constants above
\* it, L being the loop level of the controlling block if one is set and of the
\* block being emitted otherwise; every other token that was on the stack has
\* been dropped by the ops of the step.
C22_ReturnStack ==
    [][ReturnStep =>
        LET L == IF controlling # 0 THEN fn.lvl[controlling] ELSE fn.lvl[emitting]
            kept == IF TopInst.op = "ret" THEN 1 ELSE 0
        IN /\ Len(stack') = L + 1
           /\ \A k \in 1..L : stack'[k] = ConstTok(0)
           /\ IsReturnToken(stack'[L + 1], TopInst)
           /\ CountOps(StepOps, "drop") + 4 * CountOps(StepOps, "dropw")
                  = Len(stack) - kept
           /\ CountOps(StepOps, "push") = L]_vars

\* C22 witness: a return was lowered inside a loop with other tokens on the
\* stack, which the ops of the current block dropped
C22_Witness ==
    /\ status = "run"
    /\ replog # <<>>
    /\ replog[Len(replog)].kind = "ret"
    /\ replog[Len(replog)].zeros > 0
    /\ Top.kind = "sched"
    /\ Top.visit = replog[Len(replog)].visit
    /\ Len(stack) = replog[Len(replog)].zeros + 1
    /\ ~stack[Len(stack)].c
    /\ CountOps(blocks[current_block].ops, "drop") > 0

\* the op at index k of output block b is one that the step appends
IsNewOp(b, k) == b > Len(blocks) \/ k > Len(blocks[b].ops)

\* the step is the first-visit lowering of the terminator of the block being
\* emitted, which is or is not a loop header, and does not abort
FirstVisitBranch(ops, header) ==
    /\ AtLowering(ops)
    /\ Top.first
    /\ Top.b = emitting
    /\ (emitting \in fn.hdr) = header
    /\ status' = "run"

LastOp(q) == q[Len(q)]

\* C23: every while(body) op is immediately preceded by push(1) in the same
\* block, refers to a block created by the same step, and is emitted only
\* while lowering the terminator of a loop header on its first visit; the
\* first-visit branch of a block that is not a header emits its destination
\* into the current output block (br) or into the arms of an if appended to
\* the current output block (cond_br).
C23_WhileOnlyInHeader ==
    [][/\ \A b \in 1..Len(blocks') :
              \A k \in 1..Len(blocks'[b].ops) :
                  IsNewOp(b, k) /\ blocks'[b].ops[k].op = "while" =>
                      /\ b = current_block
                      /\ k > 1
                      /\ blocks'[b].ops[k - 1] = Op("push", 1)
                      /\ blocks'[b].ops[k].a > Len(blocks)
                      /\ blocks'[b].ops[k].a <= Len(blocks')
                      /\ blocks'[blocks'[b].ops[k].a].wd = blocks[b].wd + 1
                      /\ FirstVisitBranch({"br", "cond_br"}, TRUE)
       /\ FirstVisitBranch({"br"}, FALSE) =>
              /\ Top'.kind = "call"
              /\ Top'.b = TopInst.dst[1].b
              /\ Top'.bp = current_block
              /\ Len(blocks') = Len(blocks)
       /\ FirstVisitBranch({"cond_br"}, FALSE) =>
              /\ LastOp(blocks'[current_block].ops).op = "if"
              /\ LastOp(blocks'[current_block].ops).a > Len(blocks)
              /\ Top'.kind = "call"
              /\ Top'.b = TopInst.dst[1].b
              /\ Top'.bp = LastOp(blocks'[current_block].ops).a
       /\ (/\ status = "run" /\ Top.kind = "inst" /\ Top.phase = "else"
           /\ emitting \notin fn.hdr /\ status' = "run") =>
              /\ LastOp(blocks[current_block].ops).op = "if"
              /\ Top'.kind = "call"
              /\ Top'.b = TopInst.dst[2].b
              /\ Top'.bp = LastOp(blocks[current_block].ops).b]_vars

\* C23 witness: a run that emitted a while for a loop header and also
\* lowered the branch of a block that is not a header, whose destination went
\* into the same output block
C23_Witness ==
    /\ status = "done"
    /\ \E b \in 1..Len(blocks) : \E k \in 1..Len(blocks[b].ops) :
           blocks[b].ops[k].op = "while"
    /\ \E e \in 1..Len(entries) : \E c \in 1..Len(entries) :
           /\ c < e
           /\ entries[e].first
           /\ entries[c].b = entries[e].from
           /\ entries[c].b \notin fn.hdr
           /\ LastOp(fn.insts[entries[c].b]).op = "br"
           /\ entries[e].bp = entries[c].bp

\* the operand stack that emit_inst of frame i holds while the frames above
\* it run: the current stack if no emit above it has started, and otherwise
\* the stack the emit above it will restore
StackOfFrame(i) ==
    IF i < Len(frames) /\ frames[i + 1].kind = "sched" THEN frames[i + 1].stk ELSE stack

\* frame i is a conditional branch between its two arms
BetweenArms(i) == frames[i].kind = "inst" /\ frames[i].phase = "else"

\* C24: at a first-visit conditional branch the condition is popped from
\* the simulated stack once, the then arm starts from the popped stack with
\* its edge prepared, the popped stack is not changed by any step taken while
\* the then arm (and every block below it) is lowered, and the else arm
\* starts from that same popped stack with its own edge prepared.
C24_ArmsIndependent ==
    [][/\ (AtLowering({"cond_br"}) /\ Top.first /\ status' = "run") =>
              /\ stack # <<>>
              /\ stack' = Tail(stack)
              /\ Top'.kind = "call"
              /\ Top'.stk = PrepareEdge(TopInst.dst[1], Tail(stack)).s
              /\ frames'[Len(frames)].phase = "else"
       /\ \A i \in 1..Len(frames) :
              (BetweenArms(i) /\ i <= Len(frames') /\ frames'[i] = frames[i]) =>
                  StackOfFrame(i)' = StackOfFrame(i)
       /\ (status = "run" /\ BetweenArms(Len(frames)) /\ status' = "run") =>
              /\ stack' = stack
              /\ Top'.kind = "call"
              /\ Top'.stk = PrepareEdge(TopInst.dst[2], stack).s]_vars

\* C24 witness: the then arm of a conditional branch has been lowered with
\* ops that changed its stack, and the else arm is about to start
C24_Witness ==
    /\ status = "run"
    /\ BetweenArms(Len(frames))
    /\ entries # <<>>
    /\ entries[Len(entries)].from = Top.b
    /\ entries[Len(entries)].pre # stack
    /\ blocks[entries[Len(entries)].bp].ops # <<>>

\* the index of the frame of the innermost emit that has started
RECURSIVE InnermostEmit(_, _)
InnermostEmit(fs, i) ==
    IF i = 0 THEN 0
    ELSE IF fs[i].kind = "sched" THEN i
    ELSE InnermostEmit(fs, i - 1)

\* C25: while a block is being emitted, controlling is the block whose
\* terminator caused the emission only if a loop-header prefix is being
\* emitted again along a back edge, and is none in every other case (the entry
\* block and every first-visit successor); when emit returns, controlling,
\* emitting and current_block have the values they had before the call.
C25_Controlling ==
    [][/\ (status' = "run" /\ InnermostEmit(frames', Len(frames')) # 0) =>
              LET f == frames'[InnermostEmit(frames', Len(frames'))]
              IN /\ f.b = emitting'
                 /\ IF f.first THEN controlling' = 0
                    ELSE controlling' = f.prev.emitting /\ controlling' # 0
       /\ (status = "run" /\ Top.kind = "call" /\ status' = "run") =>
              Top'.prev = [block |-> current_block, emitting |-> emitting,
                           controlling |-> controlling]
       /\ \A i \in 1..Len(frames) :
              (i <= Len(frames') /\ frames[i].kind = "sched") =>
                  frames'[i].prev = frames[i].prev
       /\ (status = "run" /\ Top.kind = "sched" /\ Len(frames') < Len(frames)) =>
              /\ controlling' = Top.prev.controlling
              /\ emitting' = Top.prev.emitting
              /\ current_block' = Top.prev.block]_vars

\* C26: immediately before an instruction with operands a0..ak is lowered
\* for a consumer that is not commutative, its operands occupy the top of the
\* simulated stack in argument order: a0 at position 0, a1 at position 1 and
\* so on.
C26_OperandOrder ==
    (AtLowering({"neg", "sub", "store", "ret", "cond_br"}) /\ ~IsCommutativeBinary(TopInst)) =>
        /\ Len(stack) >= Len(TopInst.args)
        /\ \A i \in 1..Len(TopInst.args) :
               TopInst.args[i] \in Names(At(stack, i - 1))

\* C27: lowering a global-value instruction emits exactly one op
\* (mem-load-imm for a load layer, a push of the address otherwise) and grows
\* the simulated stack by exactly one token, which names the instruction's
\* result and is on top; the result is on the stack exactly once.
C27_GlobalValueResult ==
    [][AtLowering({"global_value"}) =>
        /\ StepOps = <<IF TopInst.imm.ty = "load"
                       THEN Op("mem_load_imm", 0) ELSE Op("push_u32", 0)>>
        /\ Len(stack') = Len(stack) + 1
        /\ TopInst.res[1] \in Names(At(stack', 0))
        /\ Len(TokensOf(stack', TopInst.res[1])) = 1]_vars

(***************************************************************************)
(* Properties of the dependency graph before dead-code elimination         *)
(* (specification SpecDCE).                                                *)
(***************************************************************************)
\* the graph is the one the build phase made: nothing has been removed
BuildDone == u.pc = "dce" /\ u.rm = {}

NodeCount(g, n) == Cardinality({k \in 1..Len(g.nodes) : g.nodes[k] = n})

\* C28: after the build phase of build_dependency_graph every instruction
\* of the block has exactly one Inst node, whose program index is its 1-based
\* position in the block, and every value an instruction reads (arguments and
\* outgoing block arguments) has an edge from the reader's node to the Inst
\* node of its defining instruction when that is in the same block, and
\* otherwise to the single Stack node of the value.
C28_BuildComplete ==
    BuildDone =>
        LET insts == u.F.insts[1]
        IN /\ \A i \in 1..Len(insts) : NodeCount(u.g, InstNode(i)) = 1
           /\ \A k \in 1..Len(u.g.nodes) :
                  u.g.nodes[k].k = "inst" => u.g.nodes[k].id \in 1..Len(insts)
           /\ \A i \in 1..Len(insts) : \A v \in InstUses(insts[i]) :
                  IF \E j \in 1..Len(insts) : Contains(insts[j].res, v)
                  THEN \E j \in 1..Len(insts) :
                           /\ Contains(insts[j].res, v)
                           /\ HasEdge(u.g, InstNode(i), InstNode(j))
                  ELSE /\ NodeCount(u.g, StackNode(v)) = 1
                       /\ HasEdge(u.g, InstNode(i), StackNode(v))

\* C28 witness: the graph was built for a block in which one instruction
\* reads a value defined in the block and a value that is on the stack
C28_Witness ==
    /\ BuildDone
    /\ \E i \in 1..Len(u.F.insts[1]) : \E j \in 1..Len(u.F.insts[1]) :
           \E v \in InstUses(u.F.insts[1][i]) :
               /\ Contains(u.F.insts[1][j].res, v)
               /\ 1 \in InstUses(u.F.insts[1][i])
               /\ HasEdge(u.g, InstNode(i), InstNode(j))
               /\ HasEdge(u.g, InstNode(i), StackNode(1))

(***************************************************************************)
(* Termination of the emitter (specification Spec): a natural number that  *)
(* bounds the steps still to be taken and decreases with every step.       *)
(***************************************************************************)
\* the calls of emit made so far: those entered and the one not yet entered
EmitCalls ==
    Len(entries) + (IF frames # <<>> /\ Top.kind = "call" THEN 1 ELSE 0)

CfgEdges(F) == {<<a, b>> \in BlockIds(F) \X BlockIds(F) : b \in Successors(F, a)}

MaxEmitCalls == Cardinality(BlockIds(fn)) + Cardinality(CfgEdges(fn))

Finished == status \notin {"init", "run"}

\* the steps of emit_inst that lower instruction ix and follow its lowering
LowerSteps(ix, first) ==
    CASE ix.op = "br" -> IF first THEN 2 ELSE 1
      [] ix.op = "cond_br" -> IF first THEN 3 ELSE 1
      [] OTHER -> 1

\* the steps emit_inst takes for instruction i of block b from its p-th
\* dependency on, the calls of emit not counted
RECURSIVE InstSteps(_, _, _, _)
InstSteps(b, i, p, first) ==
    LET deps == Dependencies(Graph(b), InstNode(i))
    IN IF p > Len(deps) THEN LowerSteps(fn.insts[b][i], first)
       ELSE LET d == deps[p]
                one == IF d.k = "inst" /\ IsMemberOf(Graph(b), d, Root(Graph(b), InstNode(i)))
                       THEN 1 + InstSteps(b, d.id, 1, first)
                       ELSE 1
            IN one + InstSteps(b, i, p + 1, first)

\* the steps emit_schedule takes for the nodes p, p - 1, .. 1 of the schedule
\* of block b, and the return of emit
RECURSIVE SchedSteps(_, _, _)
SchedSteps(b, p, first) ==
    IF p = 0 THEN 1
    ELSE LET node == Schedule(b)[p]
         IN (IF node.k = "inst" THEN 1 + InstSteps(b, node.id, 1, first) ELSE 1)
            + SchedSteps(b, p - 1, first)

\* more steps than one call of emit takes, the calls it makes not counted
WorkBound ==
    LET all == {SchedSteps(b, Len(Schedule(b)), first) : b \in BlockIds(fn), first \in BOOLEAN}
    IN 2 + CHOOSE w \in all : \A x \in all : x <= w

FrameSteps(f) ==
    CASE f.kind = "call" -> 0
      [] f.kind = "sched" -> SchedSteps(f.b, f.pos, f.first)
      [] f.phase = "deps" -> InstSteps(f.b, f.node, f.pos, f.first)
      [] f.phase = "else" -> 2
      [] OTHER -> 1

RECURSIVE SumFrames(_)
SumFrames(fs) == IF fs = <<>> THEN 0 ELSE FrameSteps(Head(fs)) + SumFrames(Tail(fs))

\* a bound on the steps the run has still to take
Variant ==
    IF Finished THEN 0
    ELSE (IF status = "init" THEN 2 ELSE 1)
         + WorkBound * (MaxEmitCalls - Len(entries)) + SumFrames(frames)

\* C29: for every function that meets the normalization prerequisites the
\* emission terminates: every step decreases a natural number (Variant); each
\* block is lowered in first-visit form at most once, a repeat visit of a loop
\* header never calls emit for a successor, and the number of emit calls is at
\* most the number of blocks plus the number of CFG edges.
C29_Terminates ==
    [][Normalized(fn) =>
          /\ Variant' < Variant
          /\ Variant' >= 0
          /\ \A b \in BlockIds(fn) :
                 Cardinality({e \in 1..Len(entries') :
                                 entries'[e].b = b /\ entries'[e].first}) <= 1
          /\ EmitCalls' <= MaxEmitCalls
          /\ (status = "run" /\ Top.kind = "inst" /\ ~Top.first) =>
                 ~(Len(frames') > Len(frames) /\ Top'.kind = "call")]_vars

\* C29 witness: a run of a normalized function with a loop has finished
\* after a repeat visit of the loop header
C29_Witness ==
    /\ status = "done"
    /\ Normalized(fn)
    /\ \E e \in 1..Len(entries) : ~entries[e].first
    /\ \E k \in 1..Len(replog) : replog[k].kind = "repeat"

\* C30: a block is lowered in repeat-visit form only when it is reached
\* from inside its own loop: at every repeat visit
\* loop_level(controlling) >= loop_level(emitting), so the number of push(0)
\* ops is not negative and the unsigned subtraction does not underflow; a
\* loop header with two predecessors outside its loop is not lowered in
\* repeat-visit form for the second of them.
C30_RepeatFromInside ==
    /\ status # "overflow"
    /\ \A e \in 1..Len(entries) :
           ~entries[e].first => fn.lvl[entries[e].from] >= fn.lvl[entries[e].b]
    /\ \A i \in 1..Len(replog) :
           replog[i].kind = "repeat" =>
               /\ fn.lvl[replog[i].from] >= fn.lvl[replog[i].b]
               /\ replog[i].zeros = fn.lvl[replog[i].from] - fn.lvl[replog[i].b]

=============================================================================
